---- MODULE Spec2Model ----
(***************************************************************************)
(* A model of the RAG services of minsol.kr.langchain.                     *)
(*                                                                         *)
(* Texts (Python str) are sequences of string tokens: an f-string or a     *)
(* join is the concatenation of the token sequences of its parts, so that  *)
(* formatting is modelled by what it builds.  Korean literals of the       *)
(* source are written with English tokens.                                 *)
(***************************************************************************)
EXTENDS Integers, Sequences, FiniteSets, TLC

VARIABLES
    app,              \* the application the process runs: "main" (app/main.py) or "api_server"
    server,           \* api_server.py: which of the globals vector_store, rag_chain are set
    openai_api_key,   \* settings.openai_api_key: "None", "" or a key
    chat_service,     \* app.state.chat_service is not None
    llm,              \* app.state.llm is not None
    store,            \* rows of the PGVector collection, in insertion order
    chat_history,     \* ChatService.chat_history
    owners,           \* ghost: for each entry of chat_history, the request that appended it
    req,              \* the HTTP requests of app/main.py and the position of each handler
    running,          \* the request whose coroutine holds the event loop, 0 when none does
    model,            \* ChatService.model: "None" or "model"
    calls,            \* ghost: the calls made on the ChatService object by its own caller
    db,               \* the tables langchain_pg_collection and langchain_pg_embedding
    vsinit,           \* initialize_vectorstore: its position, its transaction and what it met
    settings,         \* app.config.settings: llm_provider and local_model_dir
    disk,             \* the directories that exist
    boot,             \* lifespan of app/main.py: its position and what create_llm_from_config did
    wait,             \* wait_for_postgres: the variant running, its loop counter and its attempts
    conf,             \* app.config.Settings: DATABASE_URL, the POSTGRES_* fields and what was read
    fs,               \* the chat history files, and a second ChatService that loads them
    llm_init,         \* api_server.init_llm: the environment it reads and what it selected
    openai,           \* OpenAIService.chat: its arguments and the request it sent
    backend           \* backend/main.py: the globals vector_store and chain, and the last /chat

vars == <<app, server, openai_api_key, chat_service, llm, store, chat_history, owners, req,
          running, model, calls, db, vsinit, settings, disk, boot, wait, conf, fs,
          llm_init,
          openai,
          backend>>

\* What only the startup and configuration code changes
extra == <<wait, conf, fs, llm_init, openai, backend>>

\* What no request handler changes
config == <<app, server, openai_api_key, chat_service, llm, model, calls, db, vsinit,
            settings, disk, boot, extra>>

---------------------------------------------------------------------------
(* Bounds of the model *)

MaxDocs == 2
NumRequests == 2
MaxBatch == 2
MaxCalls == 4
MaxChats == 3

(* Program constants *)

SearchKMin == 1
SearchKMax == 20
RagKMin == 1
RagKMax == 10
ChainK == 2
ServerChainK == 3
SimpleDim == 5
OpenAIDim == 1536
SampleCount == 5
MainMaxRetries == 30
AppMaxRetries == 10
BackendMaxRetries == 30

(* The k values requests are drawn from: below, inside and above each bound *)
KInputs == {0, 1, 2, 11, 21}
\* The question request r asks
Question(r) == IF r % 2 = 1 THEN "q1" ELSE "q2"
Errors == {<<"boom">>}
NoScore == -1

---------------------------------------------------------------------------
(* Texts *)

RECURSIVE Join(_, _)
\* sep.join(parts)
Join(sep, parts) ==
    IF parts = <<>> THEN <<>>
    ELSE IF Len(parts) = 1 THEN parts[1]
    ELSE parts[1] \o sep \o Join(sep, Tail(parts))

\* The characters str.isspace() is true of, which str.strip() removes; those
\* without an escape of their own are written as Python writes them
Whitespace ==
    {" ", "\t", "\n", "\r", "\f", "\\x0b", "\\x1c", "\\x1d", "\\x1e", "\\x1f", "\\x85",
     "\\xa0", "\\u1680", "\\u2000", "\\u2001", "\\u2002", "\\u2003", "\\u2004", "\\u2005",
     "\\u2006", "\\u2007", "\\u2008", "\\u2009", "\\u200a", "\\u2028", "\\u2029",
     "\\u202f", "\\u205f", "\\u3000"}

IsSpace(tok) == tok \in Whitespace

RECURSIVE LStrip(_)
LStrip(t) == IF t # <<>> /\ IsSpace(Head(t)) THEN LStrip(Tail(t)) ELSE t

RECURSIVE RStrip(_)
RStrip(t) ==
    IF t # <<>> /\ IsSpace(t[Len(t)]) THEN RStrip(SubSeq(t, 1, Len(t) - 1)) ELSE t

\* str.strip()
Strip(t) == RStrip(LStrip(t))

---------------------------------------------------------------------------
(* Documents and the vector store *)

\* The i-th document of a collection
Doc(i) == [page_content |-> <<ToString(i)>>, metadata |-> <<"source", ToString(i)>>]

StoreOf(n) == [i \in 1..n |-> Doc(i)]

\* Distance of a stored document to the embedding of a query.  With no OpenAI key
\* the embeddings are SimpleEmbeddings, the same vector for every text.
Distance(key, q, d) ==
    IF key \in {"None", ""} THEN 0
    ELSE LET c == CHOOSE i \in 0..99 : ToString(i) = d.page_content[1]
         IN  IF q = "q1" THEN (3 * c) % 5 ELSE c % 3

RECURSIVE InsertByDistance(_, _)
\* Insert pair p into the list sorted by score, after the pairs of equal score
InsertByDistance(p, sorted) ==
    IF sorted = <<>> THEN <<p>>
    ELSE IF p.score < Head(sorted).score THEN <<p>> \o sorted
    ELSE <<Head(sorted)>> \o InsertByDistance(p, Tail(sorted))

RECURSIVE SortByDistance(_)
SortByDistance(pairs) ==
    IF pairs = <<>> THEN <<>>
    ELSE InsertByDistance(pairs[Len(pairs)], SortByDistance(SubSeq(pairs, 1, Len(pairs) - 1)))

Take(s, k) == SubSeq(s, 1, IF k < Len(s) THEN k ELSE Len(s))

\* PGVector.similarity_search_with_score(query, k): the k nearest rows, nearest first
similarity_search_with_score(rows, key, q, k) ==
    Take(SortByDistance([i \in 1..Len(rows) |->
            [doc |-> rows[i], score |-> Distance(key, q, rows[i])]]), k)

\* PGVector.similarity_search(query, k), also what as_retriever(k).invoke(query) returns
similarity_search(rows, key, q, k) ==
    LET ds == similarity_search_with_score(rows, key, q, k)
    IN  [i \in 1..Len(ds) |-> ds[i].doc]

---------------------------------------------------------------------------
(* Request models: app/api/models.py *)

SearchRequest_k_NoLowerBound(k) == k <= SearchKMax

\* SearchRequest.k: Field(default=5, ge=1, le=20)
SearchRequest_k(k) == k >= SearchKMin /\ k <= SearchKMax

\* RAGRequest.k: Field(default=2, ge=1, le=10)
RAGRequest_k(k) == k >= RagKMin /\ k <= RagKMax

Validates(kind, k) == IF kind = "search" THEN SearchRequest_k(k) ELSE RAGRequest_k(k)

DocumentResponse(content, metadata, score) ==
    [content |-> content, metadata |-> metadata, score |-> score]

---------------------------------------------------------------------------
(* The database behind PGVector: app/core/vectorstore.py *)

CollectionName == "langchain_collection"

\* next_uuid stands for uuid.uuid4(): a value no record has had before
EmptyDb == [collections |-> {}, rows |-> <<>>, next_uuid |-> 1]

\* initialize_vectorstore is not running
NotInitializing ==
    [pc |-> "none", probe |-> "none", cleanup |-> "none", connected |-> FALSE,
     collection_uuid |-> -1, deleted_embeddings |-> FALSE, deleted_collection |-> FALSE,
     old_uuid |-> -1, old_rows |-> <<>>, adds |-> 0,
     raised_at |-> "none",     \* ghost: the cleanup statement that raised
     restarts |-> 0]           \* ghost: the invocations made by earlier processes

\* Settings: llm_provider defaults to "openai", local_model_dir to None
DefaultSettings == [llm_provider |-> "openai", local_model_dir |-> "None"]

\* wait_for_postgres is not running
NotWaiting == [variant |-> "none", pc |-> "none", retry_count |-> 0, attempts |-> 0,
               last |-> "none", error |-> "none",
               caller |-> "none",        \* who called the function: the startup or a /chat request
               initialized |-> "no",     \* backend/main.py: what followed the wait in initialize_vector_store
               chats |-> 0]              \* the /chat requests that called initialize_vector_store

\* The empty string as urlparse splits it, and as urlunparse joins it
EmptyUrl == [scheme |-> "", netloc |-> <<>>, path |-> <<>>, query |-> <<>>]

\* No Settings object is being read
NoSettings == [pc |-> "none", DATABASE_URL_set |-> FALSE, database_url_env |-> EmptyUrl,
               postgres_user |-> "", postgres_password |-> "", postgres_host |-> "",
               postgres_port |-> "", postgres_db |-> "",
               sanitized |-> EmptyUrl, resanitized |-> EmptyUrl, database_url |-> EmptyUrl]

\* The files chat histories are saved to
Paths == {"a.json", "b.json"}

\* A path with no file behind it
Absent == [exists |-> FALSE, complete |-> FALSE, text |-> <<>>]

\* No history file has been written, and the second ChatService has an empty history
NoFiles == [file |-> [p \in Paths |-> Absent], saved |-> [p \in Paths |-> <<>>],
            other |-> <<>>, ops |-> 0, loads |-> {}, raised |-> "none"]

\* The variables init_llm depends on, none of them set
NoEnviron == [USE_OPENAI |-> "None", OPENAI_API_KEY |-> "None",
              USE_OLLAMA |-> "None", USE_HUGGINGFACE |-> "None"]

\* The globals of korean_llm.py before the module is imported
NoFlags == [USE_OLLAMA |-> FALSE, USE_HUGGINGFACE |-> FALSE,
            OLLAMA_AVAILABLE |-> FALSE, HF_AVAILABLE |-> FALSE]

\* api_server.py is not being loaded and init_llm is not running
NoLlmInit == [pc |-> "none", environ |-> NoEnviron, dotenv |-> NoEnviron, korean_llm |-> NoFlags,
              ollama_installed |-> FALSE, transformers_installed |-> FALSE,
              selected |-> "none", result |-> "none", raised |-> "none"]

\* An Optional[int] or Optional[float] argument that was not given
None == [given |-> FALSE, value |-> 0]

\* OpenAIService.chat is not running
NoOpenAI == [pc |-> "none", context |-> "None", system_prompt |-> "None",
             max_tokens |-> None, temperature |-> None,
             messages |-> <<>>, sent_max_tokens |-> None, sent_temperature |-> None,
             raised |-> "none"]

\* backend/main.py is not running
NoBackend == [started |-> FALSE, vector_store |-> FALSE, chain |-> FALSE,
              OPENAI_API_KEY |-> "None", rows |-> 0, chats |-> 0,
              status |-> 0, detail |-> "none", invoked |-> "none",
              conversation_id |-> "None"]

\* lifespan has run before the state the model starts in
Booted == [pc |-> "ready", result |-> "unset", error |-> "none"]

---------------------------------------------------------------------------
(* ChatService: app/service/chat_service.py *)

ChatMessage_AlwaysUser(role, content) ==
    [role |-> "user", content |-> content, timestamp |-> "None"]

\* ChatMessage(role=..., content=...): the timestamp defaults to None
ChatMessage(role, content) == [role |-> role, content |-> content, timestamp |-> "None"]

RECURSIVE FormatParts(_)
FormatParts(h) ==
    IF h = <<>> THEN <<>>
    ELSE (IF Head(h).role = "user"
             THEN <<"### user:\n">> \o Head(h).content \o <<"\n">>
          ELSE IF Head(h).role = "assistant"
             THEN <<"### assistant:\n">> \o Head(h).content \o <<"\n">>
          ELSE <<>>)
         \o FormatParts(Tail(h))

_format_chat_history_LastTurnOnly(h) ==
    FormatParts(IF h = <<>> THEN h ELSE <<h[Len(h)]>>) \o <<"### assistant:\n">>

\* ChatService._format_chat_history
_format_chat_history(h) == FormatParts(h) \o <<"### assistant:\n">>

\* The outputs the model's generate call can decode to, before strip()
RawOutputs == {<<" ", "a1", "\n">>, <<"\r", "a2">>}
---------------------------------------------------------------------------
(* app/main.py: the event loop and the handlers of /search and /rag/query *)

Requests == 1..NumRequests

\* psycopg2.connect(settings.database_url) returns a connection or raises
ConnectOutcomes == {"ok", "OperationalError", "ProgrammingError"}

NoHealth == [status |-> "none", database |-> "none", openai_configured |-> FALSE]

IdleRequest ==
    [kind |-> "none", question |-> "none", k |-> 0, pc |-> "idle",
     source_docs |-> <<>>,     \* rag_query: source_docs
     context_docs |-> <<>>,    \* the documents formatted into the generator's context
     rag_prompt |-> <<>>,      \* rag_query: rag_prompt
     transcript |-> <<>>,      \* ChatService.chat: prompt
     seen |-> <<>>,            \* ghost: owners of the messages rendered into transcript
     retrievals |-> <<>>,      \* ghost: the k of every retrieval call made for the request
     prompts |-> <<>>,         \* ghost: the prompt of every generation call made for the request
     raised |-> "none",        \* ghost: the call that raised, if any
     docs_in |-> <<>>,         \* api_server: request.documents, or the one document of /documents
     before |-> 0,             \* ghost: the rows stored when an ingesting handler started
     after |-> 0,              \* ghost: the rows stored when it returned
     connects |-> <<>>,        \* ghost: the outcome of every psycopg2.connect made for the request
     health |-> NoHealth,      \* /health: the HealthResponse
     status |-> 0, detail |-> <<>>,
     documents |-> <<>>, count |-> 0, answer |-> <<>>]

HTTPException500_NoMessage(prefix, e) == prefix \o <<"internal error">>

\* HTTPException(status_code=500, detail=f"{prefix}{str(e)}")
HTTPException500(prefix, e) == prefix \o e

SuspendsAtEveryCall(pc) == TRUE

\* A coroutine gives up the event loop only at an await; vector_search and
\* rag_query contain none, and the store and ChatService calls are synchronous.
SuspendsAt(pc) == FALSE

LoopAfter(r, pc) == IF pc = "done" \/ SuspendsAt(pc) THEN 0 ELSE r

ContextBlock_PlaceholderWhenEmpty(docs) ==
    IF docs = <<>> THEN <<"(no documents)">>
    ELSE Join(<<"\n\n">>, [i \in 1..Len(docs) |->
            <<"[doc ", ToString(i), "]\n">> \o docs[i].page_content])

ContextBlock_Unlabelled(docs) ==
    Join(<<"\n\n">>, [i \in 1..Len(docs) |-> docs[i].page_content])

\* rag_query: the context block and the prompt of the ChatService path
ContextBlock(docs) ==
    Join(<<"\n\n">>, [i \in 1..Len(docs) |->
            <<"[doc ", ToString(i), "]\n">> \o docs[i].page_content])

RagPrompt(context, question) ==
    <<"Answer the question from this context:\n\ncontext:\n">> \o context
        \o <<"\n\nquestion: ", question, "\n\nanswer:">>

\* repr(Document): the metadata dict, then the text
DocumentRepr(doc) ==
    <<"Document(metadata={">> \o doc.metadata \o <<"}, page_content='">>
        \o doc.page_content \o <<"')">>

\* str() of a list of documents: the repr of each document, separated by ", "
DocsRepr(docs) == Join(<<", ">>, [i \in 1..Len(docs) |-> DocumentRepr(docs[i])])

\* rag_chain.py 36-57: {"context": retriever, "question": passthrough} | prompt.
\* The retriever (k = 2) searches the rows of the store for the question, and the
\* template is filled with str() of the documents it returns, nearest first.
ChainPrompt(rows, key, question) ==
    <<"\nAnswer the question from this context:\n\ncontext: [">>
        \o DocsRepr(similarity_search(rows, key, question, ChainK))
        \o <<"]\n\nquestion: ", question, "\n\nanswer:\n">>

\* rag_chain.py: dummy_rag_function
DummyAnswer_NoDocuments(docs, question) ==
    <<"Retrieved documents:\n">>
        \o <<"\n\nDummy answer for '", question, "'; set an OpenAI API key.">>

\* rag_chain.py: dummy_rag_function, the chain built when there is no LLM
DummyAnswer(docs, question) ==
    <<"Retrieved documents:\n">>
        \o Join(<<"\n">>, [i \in 1..Len(docs) |-> <<"- ">> \o docs[i].page_content])
        \o <<"\n\nDummy answer for '", question, "'; set an OpenAI API key.">>

\* The request arrives and FastAPI reads its body; the dependencies of the route
\* are awaited next, while the event loop runs the handlers of other requests
Arrive(r, kind, k) ==
    /\ app = "main"
    /\ req[r].pc = "idle"
    /\ \A s \in 1..(r - 1) : req[s].pc # "idle"
    /\ req' = [req EXCEPT ![r] = [@ EXCEPT !.kind = kind, !.question = Question(r), !.k = k,
                                          !.pc = "depends"]]
    /\ UNCHANGED <<config, store, chat_history, owners, running>>

\* The request model is validated after the last dependency has returned: a
\* request whose model does not validate is answered 422 without calling the
\* handler, the others wait for the event loop to call it.
Validated(r) ==
    IF Validates(req[r].kind, req[r].k)
    THEN [req[r] EXCEPT !.pc = IF req[r].kind = "search" THEN "search" ELSE "retrieve"]
    ELSE [req[r] EXCEPT !.pc = "done", !.status = 422, !.detail = <<"validation error">>]

\* Depends(get_vectorstore_dependency): a plain function, which FastAPI runs in
\* its thread pool before it calls the handler, outside the handler's try, while
\* the event loop runs other requests.  get_vectorstore() connects to the
\* database and may raise: the request is answered 500 and no other dependency
\* is called.  /search has this dependency only; /rag/query awaits
\* get_chat_service after it.
Depends(r) ==
    /\ req[r].pc = "depends"
    /\ \/ req' = [req EXCEPT ![r] = IF req[r].kind = "search" THEN Validated(r)
                                     ELSE [@ EXCEPT !.pc = "get_chat_service"]]
       \/ \E e \in Errors :
          req' = [req EXCEPT ![r] = [@ EXCEPT !.pc = "done", !.status = 500,
                        !.raised = "depends", !.detail = <<"Internal Server Error">>]]
    /\ UNCHANGED <<config, store, chat_history, owners, running>>

\* chat_router.py 26-29, Depends(get_chat_service): the second dependency of
\* /rag/query, run in the thread pool after the first has returned.  It reads
\* app.state.chat_service with a default and writes nothing.
get_chat_service(r) ==
    /\ req[r].pc = "get_chat_service"
    /\ req' = [req EXCEPT ![r] = Validated(r)]
    /\ UNCHANGED <<config, store, chat_history, owners, running>>

\* The event loop starts the handler's coroutine (or resumes it) when no other
\* coroutine is running
Schedule(r) ==
    /\ running = 0
    /\ req[r].pc \notin {"idle", "depends", "get_chat_service", "done"}
    /\ running' = r
    /\ UNCHANGED <<config, store, chat_history, owners, req>>

SearchResponse_FarthestFirst(docs_with_scores) ==
    LET n == Len(docs_with_scores)
        documents == [i \in 1..n |->
            DocumentResponse(docs_with_scores[n + 1 - i].doc.page_content,
                             docs_with_scores[n + 1 - i].doc.metadata,
                             docs_with_scores[n + 1 - i].score)]
    IN  [documents |-> documents, count |-> Len(documents)]

\* vector_search, lines 36-50: the response built from the scored documents
SearchResponse(docs_with_scores) ==
    LET documents == [i \in 1..Len(docs_with_scores) |->
            DocumentResponse(docs_with_scores[i].doc.page_content,
                             docs_with_scores[i].doc.metadata,
                             docs_with_scores[i].score)]
    IN  [documents |-> documents, count |-> Len(documents)]

\* routes/search.py: vector_search
vector_search(r) ==
    /\ running = r
    /\ req[r].pc = "search"
    /\ \/ LET response == SearchResponse(
                  similarity_search_with_score(store, openai_api_key, req[r].question, req[r].k))
          IN  req' = [req EXCEPT ![r] = [@ EXCEPT !.pc = "done", !.status = 200,
                        !.retrievals = Append(@, req[r].k),
                        !.documents = response.documents, !.count = response.count]]
       \/ \E e \in Errors :
          req' = [req EXCEPT ![r] = [@ EXCEPT !.pc = "done", !.status = 500,
                        !.retrievals = Append(@, req[r].k), !.raised = "retrieval",
                        !.detail = HTTPException500(<<"search error: ">>, e)]]
    /\ running' = 0
    /\ UNCHANGED <<config, store, chat_history, owners>>

\* rag_query, lines 50-51: retriever.invoke(request.question)
Retrieve(r) ==
    /\ running = r
    /\ req[r].pc = "retrieve"
    /\ \/ /\ req' = [req EXCEPT ![r] = [@ EXCEPT
                        !.pc = IF chat_service THEN "clear" ELSE "chain",
                        !.retrievals = Append(@, req[r].k),
                        !.source_docs = similarity_search(store, openai_api_key,
                                                          req[r].question, req[r].k)]]
          /\ running' = LoopAfter(r, req'[r].pc)
       \/ \E e \in Errors :
          /\ req' = [req EXCEPT ![r] = [@ EXCEPT !.pc = "done", !.status = 500,
                        !.retrievals = Append(@, req[r].k), !.raised = "retrieval",
                        !.detail = HTTPException500(<<"RAG query error: ">>, e)]]
          /\ running' = 0
    /\ UNCHANGED <<config, store, chat_history, owners>>

\* rag_query, lines 56-73: the context block, the prompt, chat_service.clear_history()
Clear(r) ==
    /\ running = r
    /\ req[r].pc = "clear"
    /\ req' = [req EXCEPT ![r] = [@ EXCEPT !.pc = "chat_begin",
                  !.context_docs = req[r].source_docs,
                  !.rag_prompt = RagPrompt(ContextBlock(req[r].source_docs), req[r].question)]]
    /\ chat_history' = <<>>
    /\ owners' = <<>>
    /\ running' = LoopAfter(r, "chat_begin")
    /\ UNCHANGED <<config, store>>

\* ChatService.chat, lines 180-189, called with reset_history=True
ChatBegin(r) ==
    /\ running = r
    /\ req[r].pc = "chat_begin"
    /\ chat_history' = <<ChatMessage("user", req[r].rag_prompt)>>
    /\ owners' = <<r>>
    /\ req' = [req EXCEPT ![r].pc = "render"]
    /\ running' = LoopAfter(r, "render")
    /\ UNCHANGED <<config, store>>

\* ChatService.chat, line 192
Render(r) ==
    /\ running = r
    /\ req[r].pc = "render"
    /\ req' = [req EXCEPT ![r] = [@ EXCEPT !.pc = "generate",
                  !.transcript = _format_chat_history(chat_history), !.seen = owners]]
    /\ running' = LoopAfter(r, "generate")
    /\ UNCHANGED <<config, store, chat_history, owners>>

Generate_DropsReply(r) ==
    /\ running = r
    /\ req[r].pc = "generate"
    /\ \/ \E out \in RawOutputs :
          /\ req' = [req EXCEPT ![r] = [@ EXCEPT !.pc = "respond",
                        !.prompts = Append(@, req[r].transcript), !.answer = Strip(out)]]
          /\ running' = LoopAfter(r, "respond")
       \/ \E e \in Errors :
          /\ req' = [req EXCEPT ![r] = [@ EXCEPT !.pc = "done", !.status = 500,
                        !.raised = "tokenizer",
                        !.detail = HTTPException500(<<"RAG query error: ">>, e)]]
          /\ running' = 0
       \/ \E e \in Errors :
          /\ req' = [req EXCEPT ![r] = [@ EXCEPT !.pc = "done", !.status = 500,
                        !.prompts = Append(@, req[r].transcript), !.raised = "generation",
                        !.detail = HTTPException500(<<"RAG query error: ">>, e)]]
          /\ running' = 0
    /\ UNCHANGED <<config, store, chat_history, owners>>

\* ChatService.chat, lines 195-236: tokenize and move to the device (195-201),
\* generate (223), decode and strip, append the reply.  A failure before line
\* 223 ends the request without a generation call.
Generate(r) ==
    /\ running = r
    /\ req[r].pc = "generate"
    /\ \/ \E out \in RawOutputs :
          /\ chat_history' = Append(chat_history, ChatMessage("assistant", Strip(out)))
          /\ owners' = Append(owners, r)
          /\ req' = [req EXCEPT ![r] = [@ EXCEPT !.pc = "respond",
                        !.prompts = Append(@, req[r].transcript), !.answer = Strip(out)]]
          /\ running' = LoopAfter(r, "respond")
       \/ \E e \in Errors :
          /\ req' = [req EXCEPT ![r] = [@ EXCEPT !.pc = "done", !.status = 500,
                        !.raised = "tokenizer",
                        !.detail = HTTPException500(<<"RAG query error: ">>, e)]]
          /\ running' = 0
          /\ UNCHANGED <<chat_history, owners>>
       \/ \E e \in Errors :
          /\ req' = [req EXCEPT ![r] = [@ EXCEPT !.pc = "done", !.status = 500,
                        !.prompts = Append(@, req[r].transcript), !.raised = "generation",
                        !.detail = HTTPException500(<<"RAG query error: ">>, e)]]
          /\ running' = 0
          /\ UNCHANGED <<chat_history, owners>>
    /\ UNCHANGED <<config, store>>

\* rag_query, lines 80-84: create_rag_chain(vectorstore, llm=llm).invoke(question);
\* without an injected llm and with a key, create_rag_chain constructs
\* ChatOpenAI (rag_chain.py 64), which may raise before the chain is invoked
Chain(r) ==
    /\ running = r
    /\ req[r].pc = "chain"
    /\ LET docs == similarity_search(store, openai_api_key, req[r].question, ChainK)
           generates == llm \/ openai_api_key \notin {"None", ""}
       IN  \/ /\ generates
              /\ \E out \in RawOutputs :
                 req' = [req EXCEPT ![r] = [@ EXCEPT !.pc = "respond",
                            !.retrievals = Append(@, ChainK), !.context_docs = docs,
                            !.prompts = Append(@, ChainPrompt(store, openai_api_key, req[r].question)),
                            !.answer = out]]
              /\ running' = LoopAfter(r, "respond")
           \/ /\ ~generates
              /\ req' = [req EXCEPT ![r] = [@ EXCEPT !.pc = "respond",
                            !.retrievals = Append(@, ChainK), !.context_docs = docs,
                            !.answer = DummyAnswer(docs, req[r].question)]]
              /\ running' = LoopAfter(r, "respond")
           \/ \E e \in Errors :
              /\ req' = [req EXCEPT ![r] = [@ EXCEPT !.pc = "done", !.status = 500,
                            !.retrievals = Append(@, ChainK), !.raised = "retrieval",
                            !.detail = HTTPException500(<<"RAG query error: ">>, e)]]
              /\ running' = 0
           \/ /\ ~llm /\ generates
              /\ \E e \in Errors :
                 req' = [req EXCEPT ![r] = [@ EXCEPT !.pc = "done", !.status = 500,
                            !.raised = "create_rag_chain",
                            !.detail = HTTPException500(<<"RAG query error: ">>, e)]]
              /\ running' = 0
           \/ /\ generates
              /\ \E e \in Errors :
                 req' = [req EXCEPT ![r] = [@ EXCEPT !.pc = "done", !.status = 500,
                            !.retrievals = Append(@, ChainK), !.context_docs = docs,
                            !.prompts = Append(@, ChainPrompt(store, openai_api_key, req[r].question)),
                            !.raised = "generation",
                            !.detail = HTTPException500(<<"RAG query error: ">>, e)]]
              /\ running' = 0
    /\ UNCHANGED <<config, store, chat_history, owners>>

\* rag_query, lines 86-99: the sources and the response
Respond(r) ==
    /\ running = r
    /\ req[r].pc = "respond"
    /\ req' = [req EXCEPT ![r] = [@ EXCEPT !.pc = "done", !.status = 200,
                  !.documents = [i \in 1..Len(req[r].source_docs) |->
                        DocumentResponse(req[r].source_docs[i].page_content,
                                         req[r].source_docs[i].metadata, NoScore)],
                  !.count = Len(req[r].source_docs)]]
    /\ running' = 0
    /\ UNCHANGED <<config, store, chat_history, owners>>

\* rag_query: the handler, from the first line of its body to its response
rag_query(r) ==
    \/ Retrieve(r)
    \/ Clear(r)
    \/ ChatBegin(r)
    \/ Render(r)
    \/ Generate(r)
    \/ Chain(r)
    \/ Respond(r)

db_status_AlwaysConnected(outcome) == "connected"

\* health, lines 144-150: db_status
db_status(outcome) == IF outcome = "ok" THEN "connected" ELSE "disconnected"

\* main.py: health; a coroutine without an await, run from arrival to response
health(r) ==
    /\ app = "main"
    /\ running = 0
    /\ req[r].pc = "idle"
    /\ \A s \in 1..(r - 1) : req[s].pc # "idle"
    /\ \E outcome \in ConnectOutcomes :
          req' = [req EXCEPT ![r] = [@ EXCEPT !.kind = "health", !.pc = "done", !.status = 200,
                    !.connects = <<outcome>>,
                    !.health = [status |-> "healthy", database |-> db_status(outcome),
                                openai_configured |-> openai_api_key # "None"]]]
    /\ UNCHANGED <<config, store, chat_history, owners, running>>

\* The state in which app/main.py serves requests: lifespan has completed
Init ==
    /\ app = "main"
    /\ server = [vector_store |-> FALSE, rag_chain |-> FALSE]
    /\ openai_api_key \in {"None", "", "sk"}
    /\ chat_service \in BOOLEAN
    /\ llm \in BOOLEAN
    /\ store \in {StoreOf(n) : n \in 0..MaxDocs}
    /\ chat_history = <<>>
    /\ owners = <<>>
    /\ req = [r \in Requests |-> IdleRequest]
    /\ running = 0
    /\ model = IF chat_service THEN "model" ELSE "None"
    /\ calls = <<>>
    /\ db = EmptyDb
    /\ vsinit = NotInitializing
    /\ settings = DefaultSettings
    /\ disk = {}
    /\ boot = Booted
    /\ wait = NotWaiting
    /\ conf = NoSettings
    /\ fs = NoFiles
    /\ llm_init = NoLlmInit
    /\ openai = NoOpenAI
    /\ backend = NoBackend

Next ==
    \E r \in Requests :
        \/ \E kind \in {"search", "rag"}, k \in KInputs : Arrive(r, kind, k)
        \/ Depends(r)
        \/ get_chat_service(r)
        \/ Schedule(r)
        \/ vector_search(r)
        \/ rag_query(r)

Spec == Init /\ [][Next]_vars

\* GET /health: the handler reads the settings and the database only, and no
\* handler writes them, so its requests are checked on their own
NextHealth == \E r \in Requests : health(r)

SpecHealth == Init /\ [][NextHealth]_vars

\* The handlers run whenever the event loop can run them
HandlerSteps ==
    \E r \in Requests :
        Depends(r) \/ get_chat_service(r) \/ Schedule(r) \/ vector_search(r) \/ rag_query(r)

SpecFair == Spec /\ WF_vars(HandlerSteps)

---------------------------------------------------------------------------
(* app/api_server.py: /retrieve, /rag, /documents and /documents/batch *)

\* The entries a /documents/batch request can hold: dicts with or without the
\* keys "content" and "metadata"
BatchEntries ==
    { [keys |-> {"content"}, content |-> <<"1">>, metadata |-> <<>>],
      [keys |-> {"content", "metadata"}, content |-> <<"2">>, metadata |-> <<"m">>],
      [keys |-> {"metadata"}, content |-> <<>>, metadata |-> <<"m">>] }

Batches == UNION { [1..n -> BatchEntries] : n \in 0..MaxBatch }

\* DocumentRequest: content is required, metadata is optional
DocumentRequests ==
    { [keys |-> {"content"}, content |-> <<"1">>, metadata |-> <<"None">>],
      [keys |-> {"content", "metadata"}, content |-> <<"2">>, metadata |-> <<"m">>] }

\* The error of the database for LIMIT k with k < 0
LimitError == <<"LIMIT must not be negative">>

\* The errors a similarity_search(question, k) call can raise: those of any
\* call, and for k < 0 the database's refusal of the LIMIT
SearchErrors(k) == IF k < 0 THEN Errors \cup {LimitError} ELSE Errors

\* Whether similarity_search(question, k) can return
SearchReturns(k) == k >= 0

BatchDocs_SkipsNoMetadata(documents) ==
    LET kept == { i \in DOMAIN documents : "metadata" \in documents[i].keys }
        Nth(n) == CHOOSE i \in kept : Cardinality({ j \in kept : j < i }) = n - 1
    IN  [n \in 1..Cardinality(kept) |->
            [page_content |-> documents[Nth(n)].content, metadata |-> documents[Nth(n)].metadata]]

\* add_documents, lines 292-298: one Document per entry; doc["content"] raises
\* KeyError for an entry without that key (HasContent tells)
BatchDocs(documents) ==
    [i \in DOMAIN documents |->
        [page_content |-> documents[i].content,
         metadata |-> IF "metadata" \in documents[i].keys THEN documents[i].metadata ELSE <<>>]]

HasContent_FirstOnly(documents) ==
    documents # <<>> => "content" \in documents[1].keys

HasContent(documents) == \A i \in DOMAIN documents : "content" \in documents[i].keys

\* add_document, lines 268-271
SingleDoc(request) ==
    [page_content |-> request.content,
     metadata |-> IF request.metadata = <<"None">> THEN <<>> ELSE request.metadata]

\* startup_event, lines 140-141: format_docs
format_docs(docs) == Join(<<"\n\n">>, [i \in DOMAIN docs |-> docs[i].page_content])

\* startup_event, lines 129-138: the prompt template
ServerPrompt(context, question) ==
    <<"Answer the question from this context.\n\ncontext:\n">> \o context
        \o <<"\n\nquestion: ", question, "\n\nanswer:">>

\* The values of k that /retrieve and /rag are called with; QueryRequest declares
\* k: int = 3 with no bound, so every integer validates
ServerKInputs == {-1, 0, 2}

\* api_server is ready for request r: the handlers are coroutines without an
\* await, so the event loop runs each from its arrival to its response
Serving(r) ==
    /\ app = "api_server"
    /\ running = 0
    /\ req[r].pc = "idle"
    /\ \A s \in 1..(r - 1) : req[s].pc # "idle"

\* The request as the handler receives it
Received(r, kind, k, docs) ==
    [req[r] EXCEPT !.kind = kind, !.question = Question(r), !.k = k, !.docs_in = docs]

\* api_server.py: retrieve
retrieve(r, k) ==
    /\ Serving(r)
    /\ IF ~server.vector_store
       THEN req' = [req EXCEPT ![r] = [Received(r, "retrieve", k, <<>>) EXCEPT !.pc = "done", !.status = 500,
                        !.detail = <<"Vector store not initialized">>]]
       ELSE \/ /\ SearchReturns(k)
               /\ LET results == similarity_search(store, openai_api_key, Question(r), k)
                  IN  req' = [req EXCEPT ![r] = [Received(r, "retrieve", k, <<>>) EXCEPT !.pc = "done", !.status = 200,
                            !.retrievals = Append(@, k),
                            !.documents = [i \in DOMAIN results |->
                                DocumentResponse(results[i].page_content,
                                                 results[i].metadata, NoScore)],
                            !.count = Len(results)]]
            \/ \E e \in SearchErrors(k) :
                  req' = [req EXCEPT ![r] = [Received(r, "retrieve", k, <<>>) EXCEPT !.pc = "done", !.status = 500,
                            !.retrievals = Append(@, k), !.raised = "retrieval",
                            !.detail = HTTPException500(<<>>, e)]]
    /\ UNCHANGED <<config, store, chat_history, owners, running>>

\* api_server.py: rag
rag(r, k) ==
    /\ Serving(r)
    /\ IF ~server.rag_chain
       THEN req' = [req EXCEPT ![r] = [Received(r, "server_rag", k, <<>>) EXCEPT !.pc = "done", !.status = 500,
                        !.detail = <<"RAG chain not initialized">>]]
       ELSE IF ~server.vector_store
       THEN req' = [req EXCEPT ![r] = [Received(r, "server_rag", k, <<>>) EXCEPT !.pc = "done", !.status = 500,
                        !.detail = HTTPException500(<<>>, <<"500: Vector store not initialized">>)]]
       ELSE LET retrieved_docs ==
                    similarity_search(store, openai_api_key, Question(r), k)
                chain_docs ==
                    similarity_search(store, openai_api_key, Question(r), ServerChainK)
                prompt == ServerPrompt(format_docs(chain_docs), Question(r))
            IN  \/ /\ SearchReturns(k)
                   /\ \E out \in RawOutputs :
                      req' = [req EXCEPT ![r] = [Received(r, "server_rag", k, <<>>) EXCEPT !.pc = "done", !.status = 200,
                            !.retrievals = <<k, ServerChainK>>,
                            !.source_docs = retrieved_docs, !.context_docs = chain_docs,
                            !.prompts = <<prompt>>, !.answer = out,
                            !.documents = [i \in DOMAIN retrieved_docs |->
                                DocumentResponse(retrieved_docs[i].page_content,
                                                 retrieved_docs[i].metadata, NoScore)],
                            !.count = Len(retrieved_docs)]]
                \/ \E e \in SearchErrors(k) :
                      req' = [req EXCEPT ![r] = [Received(r, "server_rag", k, <<>>) EXCEPT !.pc = "done", !.status = 500,
                            !.retrievals = <<k>>, !.raised = "retrieval",
                            !.detail = HTTPException500(<<>>, e)]]
                \/ /\ SearchReturns(k)
                   /\ \E e \in Errors :
                      req' = [req EXCEPT ![r] = [Received(r, "server_rag", k, <<>>) EXCEPT !.pc = "done", !.status = 500,
                            !.retrievals = <<k, ServerChainK>>, !.raised = "retrieval",
                            !.source_docs = retrieved_docs,
                            !.detail = HTTPException500(<<>>, e)]]
                \/ /\ SearchReturns(k)
                   /\ \E e \in Errors :
                      req' = [req EXCEPT ![r] = [Received(r, "server_rag", k, <<>>) EXCEPT !.pc = "done", !.status = 500,
                            !.retrievals = <<k, ServerChainK>>, !.raised = "generation",
                            !.source_docs = retrieved_docs, !.context_docs = chain_docs,
                            !.prompts = <<prompt>>,
                            !.detail = HTTPException500(<<>>, e)]]
    /\ UNCHANGED <<config, store, chat_history, owners, running>>

\* api_server.py: add_document
add_document(r, request) ==
    /\ Serving(r)
    /\ Len(store) + 1 <= MaxDocs
    /\ IF ~server.vector_store
       THEN /\ req' = [req EXCEPT ![r] = [Received(r, "add_document", 0, <<request>>) EXCEPT !.pc = "done", !.status = 500,
                        !.detail = <<"Vector store not initialized">>]]
            /\ store' = store
       ELSE \/ /\ store' = Append(store, SingleDoc(request))
               /\ req' = [req EXCEPT ![r] = [Received(r, "add_document", 0, <<request>>) EXCEPT !.pc = "done", !.status = 200,
                            !.before = Len(store), !.after = Len(store'),
                            !.answer = <<"Document added successfully">>]]
            \/ \E e \in Errors :
               /\ store' = store
               /\ req' = [req EXCEPT ![r] = [Received(r, "add_document", 0, <<request>>) EXCEPT !.pc = "done", !.status = 500,
                            !.before = Len(store), !.after = Len(store),
                            !.raised = "add_documents", !.detail = HTTPException500(<<>>, e)]]
    /\ UNCHANGED <<config, chat_history, owners, running>>

\* api_server.py: add_documents
add_documents(r, documents) ==
    /\ Serving(r)
    /\ Len(store) + Len(documents) <= MaxDocs
    /\ IF ~server.vector_store
       THEN /\ req' = [req EXCEPT ![r] = [Received(r, "add_documents", 0, documents) EXCEPT !.pc = "done", !.status = 500,
                        !.detail = <<"Vector store not initialized">>]]
            /\ store' = store
       ELSE IF ~HasContent(documents)
       THEN /\ store' = store
            /\ req' = [req EXCEPT ![r] = [Received(r, "add_documents", 0, documents) EXCEPT !.pc = "done", !.status = 500,
                        !.before = Len(store), !.after = Len(store), !.raised = "KeyError",
                        !.detail = HTTPException500(<<>>, <<"'content'">>)]]
       ELSE LET docs == BatchDocs(documents)
            IN  \/ /\ store' = store \o docs
                   /\ req' = [req EXCEPT ![r] = [Received(r, "add_documents", 0, documents) EXCEPT !.pc = "done", !.status = 200,
                            !.before = Len(store), !.after = Len(store'),
                            !.answer = <<ToString(Len(docs)), " documents added successfully">>,
                            !.count = Len(docs)]]
                \/ \E e \in Errors :
                   /\ store' = store
                   /\ req' = [req EXCEPT ![r] = [Received(r, "add_documents", 0, documents) EXCEPT !.pc = "done", !.status = 500,
                            !.before = Len(store), !.after = Len(store),
                            !.raised = "add_documents", !.detail = HTTPException500(<<>>, e)]]
    /\ UNCHANGED <<config, chat_history, owners, running>>

\* The states in which api_server.py serves: startup_event sets vector_store and
\* then rag_chain; without it both are None
InitServer ==
    /\ app = "api_server"
    /\ server \in { [vector_store |-> TRUE, rag_chain |-> TRUE],
                    [vector_store |-> TRUE, rag_chain |-> FALSE],
                    [vector_store |-> FALSE, rag_chain |-> FALSE] }
    /\ openai_api_key \in {"None", "sk"}
    /\ chat_service = FALSE
    /\ llm = server.rag_chain
    /\ store = <<>>
    /\ chat_history = <<>>
    /\ owners = <<>>
    /\ req = [r \in Requests |-> IdleRequest]
    /\ running = 0
    /\ model = "None"
    /\ calls = <<>>
    /\ db = EmptyDb
    /\ vsinit = NotInitializing
    /\ settings = DefaultSettings
    /\ disk = {}
    /\ boot = Booted
    /\ wait = NotWaiting
    /\ conf = NoSettings
    /\ fs = NoFiles
    /\ llm_init = NoLlmInit
    /\ openai = NoOpenAI
    /\ backend = NoBackend

NextServer ==
    \E r \in Requests :
        \/ \E k \in ServerKInputs : retrieve(r, k)
        \/ \E k \in ServerKInputs : rag(r, k)
        \/ \E request \in DocumentRequests : add_document(r, request)
        \/ \E documents \in Batches : add_documents(r, documents)

SpecServer == InitServer /\ [][NextServer]_vars

\* Either application
SpecHttp == (Init \/ InitServer) /\ [][Next \/ NextServer]_vars

---------------------------------------------------------------------------
(* ChatService used as an object: chat, clear_history, load_model *)

Messages == {<<"hi">>, <<"there">>}

\* One entry of the log of calls
\* generations counts the model.generate invocations of the call: chat has one,
\* at line 223, reached when the model is loaded and the prompt was tokenized
Call(op, user_message, reset_history, prompt, reply, raised) ==
    [op |-> op, user_message |-> user_message, reset_history |-> reset_history,
     prompt |-> prompt, reply |-> reply, raised |-> raised,
     generations |-> IF op = "chat" /\ raised \notin {"load_model", "tokenizer"} THEN 1 ELSE 0,
     loads |-> 0]              \* ghost: the from_pretrained calls for the weights that returned

\* The call reached AutoModelForCausalLM.from_pretrained, which returned, when
\* it found no model loaded
FromPretrained(call) == [call EXCEPT !.loads = IF model = "None" THEN 1 ELSE 0]

\* What load_model leaves in self.model when it raises: None when the tokenizer
\* or the weights fail to load (lines 113-146), the model assigned at line 134
\* or 141 when the PEFT adapter (151) or eval() (156) raises after it
FailedLoads == {"None", "model"}

\* The caller may make another call
MayCall == app \in {"chat_service", "chat_history", "chat_model"} /\ Len(calls) + fs.ops < MaxCalls

load_model_Reloads ==
    /\ MayCall
    /\ \/ /\ model' = "model"
          /\ calls' = Append(calls,
                [Call("load_model", <<>>, FALSE, <<>>, <<>>, "none") EXCEPT !.loads = 1])
       \/ /\ model' = model
          /\ calls' = Append(calls, Call("load_model", <<>>, FALSE, <<>>, <<>>, "load_model"))
    /\ UNCHANGED <<app, server, openai_api_key, chat_service, llm, store, chat_history, owners,
                   req, running, db, vsinit, settings, disk, boot, extra>>

\* ChatService.load_model
load_model ==
    /\ MayCall
    /\ IF model # "None"
       THEN /\ model' = model
            /\ calls' = Append(calls, Call("load_model", <<>>, FALSE, <<>>, <<>>, "none"))
       ELSE \/ /\ model' = "model"
               /\ calls' = Append(calls,
                     FromPretrained(Call("load_model", <<>>, FALSE, <<>>, <<>>, "none")))
            \/ \E left \in FailedLoads :
               /\ model' = left
               /\ calls' = Append(calls,
                     [Call("load_model", <<>>, FALSE, <<>>, <<>>, "load_model")
                         EXCEPT !.loads = IF left = "None" THEN 0 ELSE 1])
    /\ UNCHANGED <<app, server, openai_api_key, chat_service, llm, store, chat_history, owners,
                   req, running, db, vsinit, settings, disk, boot, extra>>

\* ChatService.chat(user_message, reset_history=reset_history)
chat(user_message, reset_history) ==
    LET id == Len(calls) + 1
        history == (IF reset_history THEN <<>> ELSE chat_history)
                      \o <<ChatMessage("user", user_message)>>
        who == (IF reset_history THEN <<>> ELSE owners) \o <<id>>
        prompt == _format_chat_history(history)
    IN  /\ MayCall
        /\ \/ \E left \in FailedLoads :
              /\ model = "None"
              /\ model' = left
              /\ UNCHANGED <<chat_history, owners>>
              /\ calls' = Append(calls,
                    [Call("chat", user_message, reset_history, <<>>, <<>>, "load_model")
                        EXCEPT !.loads = IF left = "None" THEN 0 ELSE 1])
           \/ \E out \in RawOutputs :
              /\ model' = "model"
              /\ chat_history' = Append(history, ChatMessage("assistant", Strip(out)))
              /\ owners' = Append(who, id)
              /\ calls' = Append(calls, FromPretrained(
                    Call("chat", user_message, reset_history, prompt, Strip(out), "none")))
           \/ \E failed \in {"tokenizer", "generate"} :
              /\ model' = "model"
              /\ chat_history' = history
              /\ owners' = who
              /\ calls' = Append(calls, FromPretrained(
                    Call("chat", user_message, reset_history, prompt, <<>>, failed)))
        /\ UNCHANGED <<app, server, openai_api_key, chat_service, llm, store, req, running,
                       db, vsinit, settings, disk, boot, extra>>

\* ChatService.clear_history
clear_history ==
    /\ MayCall
    /\ chat_history' = <<>>
    /\ owners' = <<>>
    /\ calls' = Append(calls, Call("clear_history", <<>>, FALSE, <<>>, <<>>, "none"))
    /\ UNCHANGED <<app, server, openai_api_key, chat_service, llm, store, req, running, model,
                   db, vsinit, settings, disk, boot, extra>>

\* ChatService.train_qlora(training_data): it loads the model when none is
\* loaded, wraps it for training and trains; each of the steps may raise
train_qlora ==
    /\ MayCall
    /\ \/ \E left \in FailedLoads :
          /\ model = "None"
          /\ model' = left
          /\ calls' = Append(calls,
                [Call("train_qlora", <<>>, FALSE, <<>>, <<>>, "load_model")
                    EXCEPT !.loads = IF left = "None" THEN 0 ELSE 1])
       \/ /\ model' = "model"
          /\ calls' = Append(calls, FromPretrained(
                Call("train_qlora", <<>>, FALSE, <<>>, <<"final">>, "none")))
       \/ /\ model' = "model"
          /\ calls' = Append(calls, FromPretrained(
                Call("train_qlora", <<>>, FALSE, <<>>, <<>>, "train")))
    /\ UNCHANGED <<app, server, openai_api_key, chat_service, llm, store, chat_history, owners,
                   req, running, db, vsinit, settings, disk, boot, extra>>

\* ChatService.__init__
InitChat ==
    /\ app = "chat_service"
    /\ server = [vector_store |-> FALSE, rag_chain |-> FALSE]
    /\ openai_api_key = "None"
    /\ chat_service = TRUE
    /\ llm = FALSE
    /\ store = <<>>
    /\ chat_history = <<>>
    /\ owners = <<>>
    /\ req = [r \in Requests |-> IdleRequest]
    /\ running = 0
    /\ model = "None"
    /\ calls = <<>>
    /\ db = EmptyDb
    /\ vsinit = NotInitializing
    /\ settings = DefaultSettings
    /\ disk = {}
    /\ boot = Booted
    /\ wait = NotWaiting
    /\ conf = NoSettings
    /\ fs = NoFiles
    /\ llm_init = NoLlmInit
    /\ openai = NoOpenAI
    /\ backend = NoBackend

NextChat ==
    \/ load_model
    \/ \E user_message \in Messages, reset_history \in BOOLEAN : chat(user_message, reset_history)
    \/ clear_history

SpecChat == InitChat /\ [][NextChat]_vars

\* The same object called by a caller that also trains it
InitModel ==
    /\ app = "chat_model"
    /\ server = [vector_store |-> FALSE, rag_chain |-> FALSE]
    /\ openai_api_key = "None"
    /\ chat_service = TRUE
    /\ llm = FALSE
    /\ store = <<>>
    /\ chat_history = <<>>
    /\ owners = <<>>
    /\ req = [r \in Requests |-> IdleRequest]
    /\ running = 0
    /\ model = "None"
    /\ calls = <<>>
    /\ db = EmptyDb
    /\ vsinit = NotInitializing
    /\ settings = DefaultSettings
    /\ disk = {}
    /\ boot = Booted
    /\ wait = NotWaiting
    /\ conf = NoSettings
    /\ fs = NoFiles
    /\ llm_init = NoLlmInit
    /\ openai = NoOpenAI
    /\ backend = NoBackend

NextModel ==
    \/ load_model
    \/ \E reset_history \in BOOLEAN : chat(<<"hi">>, reset_history)
    \/ train_qlora

SpecModel == InitModel /\ [][NextModel]_vars

---------------------------------------------------------------------------
(* app/core/vectorstore.py: initialize_vectorstore *)

\* get_embeddings: the dimensionality of the vectors this process embeds with
EmbeddingDim == IF openai_api_key \in {"None", ""} THEN SimpleDim ELSE OpenAIDim

HasCollection(d) == \E c \in d.collections : c.name = CollectionName

CollectionUuid(d) == (CHOOSE c \in d.collections : c.name = CollectionName).uuid

RowsOf(d, uuid) == SelectSeq(d.rows, LAMBDA row : row.collection_id = uuid)

\* get_vectorstore: PGVector(...) creates the collection of that name when the
\* database has none
get_vectorstore(d) ==
    IF HasCollection(d) THEN d
    ELSE [d EXCEPT !.collections = @ \cup {[name |-> CollectionName, uuid |-> d.next_uuid]},
                   !.next_uuid = @ + 1]

\* add_sample_documents: sample_docs
sample_docs == [i \in 1..SampleCount |-> <<"sample", ToString(i)>>]

add_sample_documents_FirstOnly(d) ==
    [d EXCEPT !.rows = @ \o [i \in 1..1 |->
        [collection_id |-> CollectionUuid(d), dim |-> EmbeddingDim, content |-> sample_docs[i]]]]

\* add_sample_documents: one row per sample, embedded by this process
add_sample_documents(d) ==
    [d EXCEPT !.rows = @ \o [i \in 1..SampleCount |->
        [collection_id |-> CollectionUuid(d), dim |-> EmbeddingDim, content |-> sample_docs[i]]]]

\* DELETE FROM langchain_pg_embedding WHERE collection_id = %s
DeleteEmbeddings(rows, uuid) == SelectSeq(rows, LAMBDA row : row.collection_id # uuid)

\* DELETE FROM langchain_pg_collection WHERE uuid = %s
DeleteCollection(collections, uuid) == {c \in collections : c.uuid # uuid}

\* The probe's query compares the query vector with every row of the collection
Mismatch(d) ==
    \E i \in DOMAIN d.rows :
        d.rows[i].collection_id = CollectionUuid(d) /\ d.rows[i].dim # EmbeddingDim

Initializing(pc) == app \in {"initialize_vectorstore", "lifespan"} /\ vsinit.pc = pc

NoRequest ==
    UNCHANGED <<app, server, openai_api_key, chat_service, llm, store, chat_history, owners,
                req, running, model, calls, settings, disk, boot, extra>>

\* The cleanup raised: the except clause at line 148 neither closes the
\* connection nor rolls back, so the connection stays open, with its
\* transaction and the deletions pending in it, while lines 151 and 156 run
CleanupError ==
    [vsinit EXCEPT !.pc = "add151", !.cleanup = "raised", !.raised_at = vsinit.pc]

\* initialize_vectorstore returns or raises: the local conn of a cleanup that
\* raised is released, and the database rolls its transaction back
Released(v) ==
    IF v.pc \in {"done", "failed"} /\ v.cleanup = "raised"
    THEN [v EXCEPT !.connected = FALSE,
                   !.deleted_embeddings = FALSE, !.deleted_collection = FALSE]
    ELSE v

\* line 95
InitGetVectorstore ==
    /\ Initializing("get_vectorstore")
    /\ \/ db' = get_vectorstore(db) /\ vsinit' = [vsinit EXCEPT !.pc = "probe"]
       \/ db' = db /\ vsinit' = [vsinit EXCEPT !.pc = "failed"]
    /\ NoRequest

\* lines 98-104: the probe search and what it leads to
Probe ==
    /\ Initializing("probe")
    /\ db' = db
    /\ LET rows == RowsOf(db, CollectionUuid(db))
       IN  \/ vsinit' =
                IF Mismatch(db)
                THEN [vsinit EXCEPT !.pc = "connect", !.probe = "dimensions",
                                    !.old_uuid = CollectionUuid(db), !.old_rows = rows]
                ELSE [vsinit EXCEPT !.pc = IF rows = <<>> THEN "add100" ELSE "done",
                                    !.probe = "ok",
                                    !.old_uuid = CollectionUuid(db), !.old_rows = rows]
           \/ vsinit' = [vsinit EXCEPT !.pc = "add154", !.probe = "other"]
    /\ NoRequest

\* A call of add_sample_documents at position pc; it raises when the embedding
\* or the insertion fails, as it does when the collection is not there
Add(pc, returned, raised) ==
    /\ Initializing(pc)
    /\ \/ /\ HasCollection(db)
          /\ db' = add_sample_documents(db)
          /\ vsinit' = Released([vsinit EXCEPT !.pc = returned, !.adds = @ + 1])
       \/ /\ db' = db
          /\ vsinit' = Released([vsinit EXCEPT !.pc = raised])
    /\ NoRequest

\* line 100
AddWhenEmpty == Add("add100", "done", "add154")

\* lines 107-108
CleanupConnect ==
    /\ Initializing("connect")
    /\ db' = db
    /\ \/ vsinit' = [vsinit EXCEPT !.pc = "select", !.connected = TRUE]
       \/ vsinit' = CleanupError
    /\ NoRequest

\* lines 111-120
CleanupSelect ==
    /\ Initializing("select")
    /\ db' = db
    /\ \/ vsinit' =
            IF HasCollection(db)
            THEN [vsinit EXCEPT !.pc = "delete_embeddings",
                                !.collection_uuid = CollectionUuid(db)]
            ELSE [vsinit EXCEPT !.pc = "recreate", !.connected = FALSE]
       \/ vsinit' = CleanupError
    /\ NoRequest

CleanupDeleteEmbeddings_Autocommit ==
    /\ Initializing("delete_embeddings")
    /\ \/ /\ db' = [db EXCEPT !.rows = DeleteEmbeddings(@, vsinit.collection_uuid)]
          /\ vsinit' = [vsinit EXCEPT !.pc = "delete_collection", !.deleted_embeddings = TRUE]
       \/ /\ db' = db
          /\ vsinit' = CleanupError
    /\ NoRequest

\* lines 123-129: the DELETE runs in the connection's transaction, which
\* psycopg2 opened with the first statement and which line 138 commits
CleanupDeleteEmbeddings ==
    /\ Initializing("delete_embeddings")
    /\ db' = db
    /\ \/ vsinit' = [vsinit EXCEPT !.pc = "delete_collection", !.deleted_embeddings = TRUE]
       \/ vsinit' = CleanupError
    /\ NoRequest

\* lines 131-137
CleanupDeleteCollection ==
    /\ Initializing("delete_collection")
    /\ db' = db
    /\ \/ vsinit' = [vsinit EXCEPT !.pc = "commit", !.deleted_collection = TRUE]
       \/ vsinit' = CleanupError
    /\ NoRequest

\* lines 138-142: the deletes take effect when the transaction commits
CleanupCommit ==
    /\ Initializing("commit")
    /\ \/ /\ db' = [db EXCEPT
                    !.collections = IF vsinit.deleted_collection
                                    THEN DeleteCollection(@, vsinit.collection_uuid) ELSE @,
                    !.rows = IF vsinit.deleted_embeddings
                             THEN DeleteEmbeddings(@, vsinit.collection_uuid) ELSE @]
          /\ vsinit' = [vsinit EXCEPT !.pc = "recreate", !.cleanup = "committed",
                                      !.connected = FALSE]
       \/ /\ db' = db
          /\ vsinit' = CleanupError
    /\ NoRequest

\* line 145
Recreate ==
    /\ Initializing("recreate")
    /\ \/ db' = get_vectorstore(db) /\ vsinit' = [vsinit EXCEPT !.pc = "add146"]
       \/ db' = db /\ vsinit' = [vsinit EXCEPT !.pc = "add151"]
    /\ NoRequest

\* line 146
AddAfterRecreate == Add("add146", "add156", "add151")

\* line 151
AddAfterCleanupError == Add("add151", "add156", "failed")

\* line 154
AddAfterOtherError == Add("add154", "add156", "failed")

\* line 156
AddAfterExcept == Add("add156", "done", "failed")

\* The collections and rows the database can hold when the process starts
Dims == {SimpleDim, OpenAIDim}

OldRows ==
    { [i \in DOMAIN dims |->
            [collection_id |-> 1, dim |-> dims[i], content |-> <<"old", ToString(i)>>]] :
        dims \in UNION { [1..m -> Dims] : m \in 0..MaxDocs } }

OtherCollection == [name |-> "other_collection", uuid |-> 2]

OtherRow == [collection_id |-> 2, dim |-> SimpleDim, content |-> <<"other">>]

Databases ==
    { [collections |-> {[name |-> CollectionName, uuid |-> 1]} \cup os,
       rows |-> rows \o (IF os = {} THEN <<>> ELSE <<OtherRow>>),
       next_uuid |-> 3] :
        rows \in OldRows, os \in {{}, {OtherCollection}} }
    \cup { [collections |-> os, rows |-> IF os = {} THEN <<>> ELSE <<OtherRow>>, next_uuid |-> 3] :
        os \in {{}, {OtherCollection}} }

InitVectorstore ==
    /\ app = "initialize_vectorstore"
    /\ server = [vector_store |-> FALSE, rag_chain |-> FALSE]
    /\ openai_api_key \in {"None", "", "sk"}
    /\ chat_service = FALSE
    /\ llm = FALSE
    /\ store = <<>>
    /\ chat_history = <<>>
    /\ owners = <<>>
    /\ req = [r \in Requests |-> IdleRequest]
    /\ running = 0
    /\ model = "None"
    /\ calls = <<>>
    /\ db \in Databases
    /\ vsinit = [NotInitializing EXCEPT !.pc = "get_vectorstore"]
    /\ settings = DefaultSettings
    /\ disk = {}
    /\ boot = Booted
    /\ wait = NotWaiting
    /\ conf = NoSettings
    /\ fs = NoFiles
    /\ llm_init = NoLlmInit
    /\ openai = NoOpenAI
    /\ backend = NoBackend

initialize_vectorstore ==
    \/ InitGetVectorstore
    \/ Probe
    \/ AddWhenEmpty
    \/ CleanupConnect
    \/ CleanupSelect
    \/ CleanupDeleteEmbeddings
    \/ CleanupDeleteCollection
    \/ CleanupCommit
    \/ Recreate
    \/ AddAfterRecreate
    \/ AddAfterCleanupError
    \/ AddAfterOtherError
    \/ AddAfterExcept

SpecVectorstore == InitVectorstore /\ [][initialize_vectorstore]_vars

MaxRestarts == 1

\* The process ends and another one starts against the same database and
\* calls initialize_vectorstore
Restart ==
    /\ Initializing("done")
    /\ vsinit.restarts < MaxRestarts
    /\ vsinit' = [NotInitializing EXCEPT !.pc = "get_vectorstore",
                                         !.restarts = vsinit.restarts + 1]
    /\ db' = db
    /\ NoRequest

SpecRestarts == InitVectorstore /\ [][initialize_vectorstore \/ Restart]_vars

---------------------------------------------------------------------------
(* app/core/llm/factory.py and the lifespan of app/main.py *)

Exists(path) == path \in disk

\* The default directory of the Midm model and of ChatService
MidmDir == "app/model/midm"

\* str.lower() on the provider names the model draws
Lower(provider) == IF provider = "OpenAI" THEN "openai" ELSE provider

\* not value, for an Optional[str] setting
Unset(value) == value \in {"None", ""}

\* create_openai_chat_llm: ChatOpenAI(...) returns the model or raises
create_openai_chat_llm == {"llm", "Error"}

\* create_local_korean_llm: raises ImportError when langchain_community,
\* transformers or torch cannot be imported (lines 30-43), whatever the
\* directory; then FileNotFoundError when the directory is not there (45-47);
\* else loads the model, which may raise
create_local_korean_llm(model_dir) ==
    {"ImportError"} \cup (IF ~Exists(model_dir) THEN {"FileNotFoundError"} ELSE {"llm", "Error"})

\* create_midm_local_llm: loads from model_dir, or from the default directory
\* when model_dir is None
create_midm_local_llm(model_dir) ==
    IF Exists(IF model_dir = "None" THEN MidmDir ELSE model_dir) THEN {"llm", "Error"}
    ELSE {"Error"}

\* create_llm_from_config: the values it can return ("None", "llm") and the
\* exceptions it can raise
create_llm_from_config ==
    LET provider == Lower(settings.llm_provider)
    IN  IF provider = "openai"
        THEN IF Unset(openai_api_key) THEN {"None"} ELSE create_openai_chat_llm
        ELSE IF provider = "korean_local"
        THEN IF Unset(settings.local_model_dir) THEN {"None"}
             ELSE create_local_korean_llm(settings.local_model_dir)
        ELSE IF provider = "midm"
        THEN LET model_dir == IF Unset(settings.local_model_dir) THEN "None"
                              ELSE settings.local_model_dir
             IN  { IF o = "llm" THEN "llm" ELSE "None" : o \in create_midm_local_llm(model_dir) }
        ELSE {"ValueError"}

Booting(pc) == app = "lifespan" /\ boot.pc = pc

\* lifespan, line 61: wait_for_postgres() returns or raises after its retries
WaitForPostgres ==
    /\ Booting("wait_for_postgres")
    /\ \/ /\ boot' = [boot EXCEPT !.pc = "initialize_vectorstore"]
          /\ vsinit' = [vsinit EXCEPT !.pc = "get_vectorstore"]
       \/ /\ boot' = [boot EXCEPT !.pc = "failed", !.error = "Exception"]
          /\ vsinit' = vsinit
    /\ UNCHANGED <<app, server, openai_api_key, chat_service, llm, store, chat_history, owners,
                   req, running, model, calls, db, settings, disk, extra>>

\* lifespan, line 66: initialize_vectorstore() has returned or raised
InitializeVectorstoreReturns ==
    /\ Booting("initialize_vectorstore")
    /\ vsinit.pc \in {"done", "failed"}
    /\ boot' = IF vsinit.pc = "done" THEN [boot EXCEPT !.pc = "chat_service"]
               ELSE [boot EXCEPT !.pc = "failed", !.error = "Exception"]
    /\ UNCHANGED <<app, server, openai_api_key, chat_service, llm, store, chat_history, owners,
                   req, running, model, calls, db, vsinit, settings, disk, extra>>

\* lifespan, lines 68-88: the ChatService and its model
InitChatService ==
    /\ Booting("chat_service")
    /\ IF ~Exists(MidmDir)
       THEN chat_service' = FALSE /\ model' = "None"
       ELSE \/ chat_service' = TRUE /\ model' = "model"
            \/ chat_service' = FALSE /\ model' = "None"
    /\ boot' = [boot EXCEPT !.pc = "create_llm"]
    /\ UNCHANGED <<app, server, openai_api_key, llm, store, chat_history, owners,
                   req, running, calls, db, vsinit, settings, disk, extra>>

\* lifespan, lines 90-103: create_llm_from_config(settings) and app.state.llm
CreateLLM ==
    /\ Booting("create_llm")
    /\ \E o \in create_llm_from_config :
          IF o \in {"None", "llm"}
          THEN /\ llm' = (o = "llm")
               /\ boot' = [boot EXCEPT !.pc = "ready", !.result = o]
          ELSE /\ llm' = llm
               /\ boot' = [boot EXCEPT !.pc = "failed", !.error = o]
    /\ UNCHANGED <<app, server, openai_api_key, chat_service, store, chat_history, owners,
                   req, running, model, calls, db, vsinit, settings, disk, extra>>

Providers == {"openai", "OpenAI", "korean_local", "midm", "llama"}

ModelDirs == {"None", "", "missing_dir", "model_dir"}

InitLifespan ==
    /\ app = "lifespan"
    /\ server = [vector_store |-> FALSE, rag_chain |-> FALSE]
    /\ openai_api_key \in {"None", "", "sk"}
    /\ chat_service = FALSE
    /\ llm = FALSE
    /\ store = <<>>
    /\ chat_history = <<>>
    /\ owners = <<>>
    /\ req = [r \in Requests |-> IdleRequest]
    /\ running = 0
    /\ model = "None"
    /\ calls = <<>>
    /\ db \in Databases
    /\ vsinit = NotInitializing
    /\ settings \in [llm_provider : Providers, local_model_dir : ModelDirs]
    /\ disk \in {{"model_dir"}, {"model_dir", MidmDir}}
    /\ boot = [pc |-> "wait_for_postgres", result |-> "unset", error |-> "none"]
    /\ wait = NotWaiting
    /\ conf = NoSettings
    /\ fs = NoFiles
    /\ llm_init = NoLlmInit
    /\ openai = NoOpenAI
    /\ backend = NoBackend

lifespan ==
    \/ WaitForPostgres
    \/ initialize_vectorstore
    \/ InitializeVectorstoreReturns
    \/ InitChatService
    \/ CreateLLM

SpecLifespan == InitLifespan /\ [][lifespan]_vars

---------------------------------------------------------------------------
(* wait_for_postgres: app/main.py, app.py and backend/main.py *)

WaitVariants == {"main", "app", "backend"}

\* max_retries of each variant
max_retries(variant) ==
    IF variant = "main" THEN MainMaxRetries
    ELSE IF variant = "app" THEN AppMaxRetries
    ELSE BackendMaxRetries

NextRetry_NotCounted(count) == count

\* retry_count += 1 in app/main.py, the next i of range(max_retries) in the others
NextRetry(count) == count + 1

\* The failed attempt is followed by a sleep and another attempt: app/main.py
\* catches psycopg2.OperationalError only and tests its counter after the
\* sleep; the others catch every exception and raise it on the last iteration
Retries(variant, outcome, count) ==
    IF variant = "main" THEN outcome = "OperationalError"
    ELSE count < max_retries(variant) - 1

\* What the except clause raises when it gives up: app.py raises a new
\* Exception from the one caught (line 49), backend/main.py re-raises it
\* (line 67), and app/main.py does not catch what is no OperationalError
RaisedBy(variant, outcome) == IF variant = "app" THEN "Exception" ELSE outcome

Waiting(pc) == app = "wait_for_postgres" /\ wait.pc = pc

OnlyWait ==
    UNCHANGED <<app, server, openai_api_key, chat_service, llm, store, chat_history, owners,
                req, running, model, calls, db, vsinit, settings, disk, boot, conf, fs,
                llm_init,
                openai,
                backend>>

\* One connection attempt: the body of the try and what the except clause does
WaitConnect ==
    /\ Waiting("connect")
    /\ \E outcome \in ConnectOutcomes :
          wait' =
            IF outcome = "ok"
            THEN [wait EXCEPT !.pc = "returned", !.attempts = @ + 1, !.last = outcome]
            ELSE IF Retries(wait.variant, outcome, wait.retry_count)
            THEN [wait EXCEPT !.pc = "sleep", !.attempts = @ + 1, !.last = outcome,
                              !.retry_count = IF wait.variant = "main" THEN NextRetry(@) ELSE @]
            ELSE [wait EXCEPT !.pc = "raised", !.attempts = @ + 1, !.last = outcome,
                              !.error = RaisedBy(wait.variant, outcome)]
    /\ OnlyWait

\* time.sleep(delay) returns, and the loop goes on or ends
WaitSleep ==
    /\ Waiting("sleep")
    /\ wait' =
          IF wait.variant = "main"
          THEN IF wait.retry_count < max_retries("main")
               THEN [wait EXCEPT !.pc = "connect"]
               ELSE [wait EXCEPT !.pc = "raised", !.error = "Exception"]
          ELSE [wait EXCEPT !.pc = "connect", !.retry_count = NextRetry(@)]
    /\ OnlyWait

InitWait ==
    /\ app = "wait_for_postgres"
    /\ server = [vector_store |-> FALSE, rag_chain |-> FALSE]
    /\ openai_api_key = "None"
    /\ chat_service = FALSE
    /\ llm = FALSE
    /\ store = <<>>
    /\ chat_history = <<>>
    /\ owners = <<>>
    /\ req = [r \in Requests |-> IdleRequest]
    /\ running = 0
    /\ model = "None"
    /\ calls = <<>>
    /\ db = EmptyDb
    /\ vsinit = NotInitializing
    /\ settings = DefaultSettings
    /\ disk = {}
    /\ boot = [pc |-> "wait_for_postgres", result |-> "unset", error |-> "none"]
    /\ \E variant \in WaitVariants :
          wait = [NotWaiting EXCEPT !.variant = variant, !.pc = "connect", !.caller = "startup"]
    /\ conf = NoSettings
    /\ fs = NoFiles
    /\ llm_init = NoLlmInit
    /\ openai = NoOpenAI
    /\ backend = NoBackend

wait_for_postgres ==
    \/ WaitConnect
    \/ WaitSleep

\* backend/main.py 80-101: what initialize_vector_store does once the wait has
\* returned, up to the assignment of the global vector_store (line 97): the
\* key is missing or a constructor raises, or the global is assigned
AfterWait ==
    /\ Waiting("returned")
    /\ wait.variant = "backend"
    /\ wait.initialized = "no"
    /\ \E outcome \in {"vector_store", "raised"} : wait' = [wait EXCEPT !.initialized = outcome]
    /\ OnlyWait

\* backend/main.py 197-206, 70-78: POST /chat calls initialize_vector_store when
\* chain is None, and that calls wait_for_postgres again when vector_store is
\* None: the earlier call of initialize_vector_store raised in the wait or
\* before line 97.  The handler is a coroutine and the loop blocks in it.
ChatWaits ==
    /\ app = "wait_for_postgres"
    /\ wait.variant = "backend"
    /\ \/ wait.pc = "raised"
       \/ wait.pc = "returned" /\ wait.initialized = "raised"
    /\ wait.chats < MaxChats
    /\ wait' = [wait EXCEPT !.pc = "connect", !.retry_count = 0, !.attempts = 0,
                            !.last = "none", !.error = "none", !.initialized = "no",
                            !.caller = "chat", !.chats = @ + 1]
    /\ OnlyWait

SpecWait == InitWait /\ [][wait_for_postgres \/ AfterWait \/ ChatWaits]_vars

\* The function is straight-line code around blocking calls: each call returns
SpecWaitFair == SpecWait /\ WF_vars(wait_for_postgres)

---------------------------------------------------------------------------
(* app/config.py: Settings.database_url and Settings._sanitize_database_url.
   A URL is held as urlparse splits it: scheme, netloc and path, and the query
   as the sequence of its name=value fields in the order written. A field
   written without "=" or with nothing after it has the value "". *)

MaxParams == 2

ParamNames == {"channel_binding", "sslmode", "options"}

\* Values as written in a URL: a plain one, a blank one, one with an escaped space
RawValues == {"require", "", "a%20b"}

\* unquote of parse_qsl: "+" and %20 both stand for a space
unquote(s) == IF s \in {"a%20b", "a+b"} THEN "a b" ELSE s

\* quote_plus of urlencode: a space is written "+"
quote_plus(s) == IF s = "a b" THEN "a+b" ELSE s

\* parse_qsl with keep_blank_values=False: fields whose value is blank are
\* dropped, names and values are unquoted
parse_qsl(query) ==
    LET kept == SelectSeq(query, LAMBDA f : f.value # "")
    IN  [i \in 1..Len(kept) |-> [name |-> unquote(kept[i].name), value |-> unquote(kept[i].value)]]

\* d[name] = value on a dict: a new key goes last, a known key keeps its place
DictSet(d, name, value) ==
    IF \E i \in 1..Len(d) : d[i].name = name
    THEN [i \in 1..Len(d) |-> IF d[i].name = name THEN [name |-> name, value |-> value] ELSE d[i]]
    ELSE Append(d, [name |-> name, value |-> value])

RECURSIVE dict(_)
dict(pairs) ==
    IF pairs = <<>> THEN <<>>
    ELSE LET n == Len(pairs)
         IN  DictSet(dict(SubSeq(pairs, 1, n - 1)), pairs[n].name, pairs[n].value)

\* query.pop(name, None)
pop(d, name) == SelectSeq(d, LAMBDA f : f.name # name)

urlencode(d) ==
    [i \in 1..Len(d) |-> [name |-> quote_plus(d[i].name), value |-> quote_plus(d[i].value)]]

_sanitize_database_url(raw_url) ==
    [raw_url EXCEPT !.query = urlencode(pop(dict(parse_qsl(raw_url.query)), "channel_binding"))]

\* The default of the field database_url_env: a Neon connection string
DefaultDatabaseUrl ==
    [scheme |-> "postgresql",
     netloc |-> <<"neondb_owner", ":", "npg", "@", "neon.tech">>,
     path   |-> <<"/", "neondb">>,
     query  |-> <<[name |-> "sslmode", value |-> "require"],
                  [name |-> "channel_binding", value |-> "require"]>>]

\* The f-string of database_url
ComposedUrl(s) ==
    [scheme |-> "postgresql",
     netloc |-> <<s.postgres_user, ":", s.postgres_password, "@", s.postgres_host, ":",
                  s.postgres_port>>,
     path   |-> <<"/", s.postgres_db>>,
     query  |-> <<>>]

\* The property database_url: a non-empty database_url_env is sanitized
DatabaseUrl(s) ==
    IF s.database_url_env # EmptyUrl
    THEN _sanitize_database_url(s.database_url_env)
    ELSE ComposedUrl(s)

RECURSIVE QueriesUpTo(_)
QueriesUpTo(n) ==
    IF n = 0 THEN {<<>>}
    ELSE LET shorter == QueriesUpTo(n - 1)
         IN  shorter \cup
             {Append(q, [name |-> name, value |-> value]) :
                 q \in shorter, name \in ParamNames, value \in RawValues}

Netlocs == {<<"u", ":", "p", "@", "h">>, <<"h", ":", "5432">>}

Urls ==
    {[scheme |-> "postgresql", netloc |-> netloc, path |-> <<"/", "db">>, query |-> query] :
        netloc \in Netlocs, query \in QueriesUpTo(MaxParams)}

PostgresHosts == {"postgres", "db"}

Configuring(pc) == app = "config" /\ conf.pc = pc

OnlyConf ==
    UNCHANGED <<app, server, openai_api_key, chat_service, llm, store, chat_history, owners,
                req, running, model, calls, db, vsinit, settings, disk, boot, wait, fs,
                llm_init,
                openai,
                backend>>

\* Settings(): DATABASE_URL fills database_url_env, whose default is used when
\* the variable is not set; the POSTGRES_* fields have their own defaults
InitSettings ==
    /\ app = "config"
    /\ server = [vector_store |-> FALSE, rag_chain |-> FALSE]
    /\ openai_api_key = "None"
    /\ chat_service = FALSE
    /\ llm = FALSE
    /\ store = <<>>
    /\ chat_history = <<>>
    /\ owners = <<>>
    /\ req = [r \in Requests |-> IdleRequest]
    /\ running = 0
    /\ model = "None"
    /\ calls = <<>>
    /\ db = EmptyDb
    /\ vsinit = NotInitializing
    /\ settings = DefaultSettings
    /\ disk = {}
    /\ boot = Booted
    /\ wait = NotWaiting
    /\ fs = NoFiles
    /\ llm_init = NoLlmInit
    /\ openai = NoOpenAI
    /\ backend = NoBackend
    /\ \E set \in BOOLEAN, value \in Urls \cup {EmptyUrl}, host \in PostgresHosts :
          /\ ~set => value = EmptyUrl
          /\ conf = [NoSettings EXCEPT
                        !.pc = "built",
                        !.DATABASE_URL_set = set,
                        !.database_url_env = IF set THEN value ELSE DefaultDatabaseUrl,
                        !.postgres_user = "langchain_user",
                        !.postgres_password = "langchain_password",
                        !.postgres_host = host,
                        !.postgres_port = "5432",
                        !.postgres_db = "langchain_db"]

\* settings.database_url is read
ReadDatabaseUrl ==
    /\ Configuring("built")
    /\ conf' = [conf EXCEPT !.pc = "read", !.database_url = DatabaseUrl(conf)]
    /\ OnlyConf

\* Settings._sanitize_database_url(raw_url) on a URL
Sanitize ==
    /\ Configuring("read")
    /\ conf.database_url_env # EmptyUrl
    /\ conf' = [conf EXCEPT !.pc = "sanitized",
                            !.sanitized = _sanitize_database_url(conf.database_url_env)]
    /\ OnlyConf

\* ... and on what it returned
SanitizeAgain ==
    /\ Configuring("sanitized")
    /\ conf' = [conf EXCEPT !.pc = "resanitized",
                            !.resanitized = _sanitize_database_url(conf.sanitized)]
    /\ OnlyConf

NextSettings ==
    \/ ReadDatabaseUrl
    \/ Sanitize
    \/ SanitizeAgain

SpecSettings == InitSettings /\ [][NextSettings]_vars

---------------------------------------------------------------------------
(* chat_service.py: save_chat_history and load_chat_history.  A file holds
   the JSON text json.dump wrote: a list of objects, each the key/value pairs
   of one message, a string written as a JSON string and None as null. *)

JsonNull == [type |-> "null", text |-> <<>>]

JsonString(text) == [type |-> "string", text |-> text]

\* json.dump of a str or of None
JsonValue(v) == IF v = "None" THEN JsonNull ELSE JsonString(<<v>>)

\* json.load of a string or of null
PyValue(j) == IF j.type = "null" THEN "None" ELSE j.text[1]

\* save_chat_history: history_dict, one dict per message
history_dict(history) ==
    [i \in 1..Len(history) |->
        <<[key |-> "role", value |-> JsonValue(history[i].role)],
          [key |-> "content", value |-> JsonString(history[i].content)],
          [key |-> "timestamp", value |-> JsonValue(history[i].timestamp)]>>]

\* msg[key] on a dict read from the file
Item(msg, key) == msg[CHOOSE i \in 1..Len(msg) : msg[i].key = key].value

ChatMessages_Reversed(dicts) ==
    [i \in 1..Len(dicts) |->
        [role      |-> PyValue(Item(dicts[Len(dicts) + 1 - i], "role")),
         content   |-> Item(dicts[Len(dicts) + 1 - i], "content").text,
         timestamp |-> PyValue(Item(dicts[Len(dicts) + 1 - i], "timestamp"))]]

\* load_chat_history: [ChatMessage(**msg) for msg in history_dict]
ChatMessages(dicts) ==
    [i \in 1..Len(dicts) |->
        [role      |-> PyValue(Item(dicts[i], "role")),
         content   |-> Item(dicts[i], "content").text,
         timestamp |-> PyValue(Item(dicts[i], "timestamp"))]]

OnlyFiles ==
    UNCHANGED <<app, server, openai_api_key, chat_service, llm, store, req, running, model,
                calls, db, vsinit, settings, disk, boot, wait, conf,
                llm_init,
                openai,
                backend>>

\* A file json.load can read: it is there and json.dump wrote all of it
Loadable(filepath) == fs.file[filepath].exists /\ fs.file[filepath].complete

\* ChatService.save_chat_history(filepath), lines 386-394.  open(filepath, "w")
\* may raise, before it has touched the file; once it has returned the file is
\* there and empty, and json.dump writes the list piece by piece: when it
\* raises, the file holds the dicts written so far and no closing bracket.
save_chat_history(filepath) ==
    /\ MayCall
    /\ \/ fs' = [fs EXCEPT !.file[filepath] = [exists |-> TRUE, complete |-> TRUE,
                                                text |-> history_dict(chat_history)],
                           !.saved[filepath] = chat_history,
                           !.ops = @ + 1, !.raised = "none"]
       \/ fs' = [fs EXCEPT !.ops = @ + 1, !.raised = "open"]
       \/ \E written \in 0..Len(chat_history) :
             fs' = [fs EXCEPT !.file[filepath] =
                                  [exists |-> TRUE, complete |-> FALSE,
                                   text |-> SubSeq(history_dict(chat_history), 1, written)],
                              !.ops = @ + 1, !.raised = "json.dump"]
    /\ UNCHANGED <<chat_history, owners>>
    /\ OnlyFiles

\* ChatService.load_chat_history(filepath), lines 396-403; open() raises
\* FileNotFoundError when there is no such file and json.load raises
\* JSONDecodeError on a file that was not written to its end: the history stays
load_chat_history(filepath) ==
    /\ MayCall
    /\ IF Loadable(filepath)
       THEN /\ chat_history' = ChatMessages(fs.file[filepath].text)
            /\ owners' = [i \in 1..Len(fs.file[filepath].text) |-> 0]
            /\ fs' = [fs EXCEPT !.ops = @ + 1, !.loads = @ \cup {<<"self", filepath>>},
                                !.raised = "none"]
       ELSE /\ UNCHANGED <<chat_history, owners>>
            /\ fs' = [fs EXCEPT !.ops = @ + 1,
                                !.raised = IF fs.file[filepath].exists THEN "JSONDecodeError"
                                           ELSE "FileNotFoundError"]
    /\ OnlyFiles

\* load_chat_history(filepath) on another ChatService instance
load_chat_history_other(filepath) ==
    /\ MayCall
    /\ IF Loadable(filepath)
       THEN fs' = [fs EXCEPT !.other = ChatMessages(fs.file[filepath].text),
                             !.ops = @ + 1, !.loads = @ \cup {<<"other", filepath>>},
                             !.raised = "none"]
       ELSE fs' = [fs EXCEPT !.ops = @ + 1,
                             !.raised = IF fs.file[filepath].exists THEN "JSONDecodeError"
                                        ELSE "FileNotFoundError"]
    /\ UNCHANGED <<chat_history, owners>>
    /\ OnlyFiles

\* ChatService.__init__, twice
InitHistory ==
    /\ app = "chat_history"
    /\ server = [vector_store |-> FALSE, rag_chain |-> FALSE]
    /\ openai_api_key = "None"
    /\ chat_service = TRUE
    /\ llm = FALSE
    /\ store = <<>>
    /\ chat_history = <<>>
    /\ owners = <<>>
    /\ req = [r \in Requests |-> IdleRequest]
    /\ running = 0
    /\ model = "None"
    /\ calls = <<>>
    /\ db = EmptyDb
    /\ vsinit = NotInitializing
    /\ settings = DefaultSettings
    /\ disk = {}
    /\ boot = Booted
    /\ wait = NotWaiting
    /\ conf = NoSettings
    /\ fs = NoFiles
    /\ llm_init = NoLlmInit
    /\ openai = NoOpenAI
    /\ backend = NoBackend

NextHistory ==
    \/ \E user_message \in Messages : chat(user_message, FALSE)
    \/ clear_history
    \/ \E filepath \in Paths : save_chat_history(filepath)
    \/ \E filepath \in Paths : load_chat_history(filepath)
    \/ \E filepath \in Paths : load_chat_history_other(filepath)

SpecHistory == InitHistory /\ [][NextHistory]_vars

---------------------------------------------------------------------------
(* api_server.py: init_llm, and core/korean_llm.py: init_korean_llm *)

\* What an environment variable holding a flag may be set to; "None" is unset
FlagValues == {"None", "true", "TRUE", "false", "1"}

\* os.getenv(name, default)
getenv(value, default) == IF value = "None" THEN default ELSE value

\* str.lower() on the flag values
lower(value) == IF value = "TRUE" THEN "true" ELSE value

\* os.getenv(name, "false").lower() == "true"
Flag(value) == lower(getenv(value, "false")) = "true"

OnlyLlmInit ==
    UNCHANGED <<app, server, openai_api_key, chat_service, llm, store, chat_history, owners,
                req, running, model, calls, db, vsinit, settings, disk, boot, wait, conf, fs,
                openai,
                backend>>

\* korean_llm.py 9-37: the globals the module computes when it is imported,
\* from the environment of that moment and the packages that can be imported
korean_llm_globals(environ, ollama_installed, transformers_installed) ==
    [USE_OLLAMA       |-> Flag(environ.USE_OLLAMA),
     USE_HUGGINGFACE  |-> Flag(environ.USE_HUGGINGFACE),
     OLLAMA_AVAILABLE |-> Flag(environ.USE_OLLAMA) /\ ollama_installed,
     HF_AVAILABLE     |-> Flag(environ.USE_HUGGINGFACE) /\ transformers_installed]

\* api_server.py 23: from app.core.korean_llm import init_korean_llm
import_korean_llm ==
    /\ app = "init_llm"
    /\ llm_init.pc = "import"
    /\ llm_init' = [llm_init EXCEPT !.pc = "load_dotenv",
                        !.korean_llm = korean_llm_globals(llm_init.environ,
                                          llm_init.ollama_installed,
                                          llm_init.transformers_installed)]
    /\ OnlyLlmInit

\* load_dotenv(path): a variable of the file is set in the environment when the
\* environment does not have it yet
dotenv_values(environ, dotenv) ==
    [name \in DOMAIN environ |-> IF environ[name] = "None" THEN dotenv[name] ELSE environ[name]]

\* api_server.py 27-28: load_dotenv(env_path)
load_dotenv ==
    /\ app = "init_llm"
    /\ llm_init.pc = "load_dotenv"
    /\ llm_init' = [llm_init EXCEPT !.pc = "start",
                        !.environ = dotenv_values(llm_init.environ, llm_init.dotenv)]
    /\ OnlyLlmInit

\* init_korean_llm: the initializer it calls, "none" when it raises ValueError;
\* it tests the globals of its module
init_korean_llm(korean_llm) ==
    IF korean_llm.USE_OLLAMA THEN "ollama"
    ELSE IF korean_llm.USE_HUGGINGFACE THEN "huggingface"
    ELSE "none"

\* init_llm: the variant it builds; USE_OPENAI and OPENAI_API_KEY are read
\* from the environment at the call
init_llm(environ, korean_llm) ==
    IF Flag(environ.USE_OPENAI) /\ ~Unset(environ.OPENAI_API_KEY) THEN "openai"
    ELSE init_korean_llm(korean_llm)

\* The initializer of the selected variant can run: init_ollama_llm and
\* init_huggingface_llm raise ImportError without their package
Importable(korean_llm, variant) ==
    IF variant = "ollama" THEN korean_llm.OLLAMA_AVAILABLE
    ELSE IF variant = "huggingface" THEN korean_llm.HF_AVAILABLE
    ELSE TRUE

\* init_llm(), from its first line to its return or its exception
InitLlm ==
    /\ app = "init_llm"
    /\ llm_init.pc = "start"
    /\ LET variant == init_llm(llm_init.environ, llm_init.korean_llm)
       IN  IF variant = "none"
           THEN llm_init' = [llm_init EXCEPT !.pc = "done", !.raised = "ValueError"]
           ELSE IF ~Importable(llm_init.korean_llm, variant)
           THEN llm_init' = [llm_init EXCEPT !.pc = "done", !.selected = variant,
                                             !.raised = "ImportError"]
           ELSE \/ llm_init' = [llm_init EXCEPT !.pc = "done", !.selected = variant,
                                                !.result = "llm"]
                \/ llm_init' = [llm_init EXCEPT !.pc = "done", !.selected = variant,
                                                !.raised = "Error"]
    /\ OnlyLlmInit

\* What the .env file may hold for a flag; "None" is a variable it does not have
DotenvFlagValues == {"None", "true", "false"}

\* The process starts: the environment and the .env file are as the operator
\* left them, and api_server.py is about to be imported
InitInitLlm ==
    /\ app = "init_llm"
    /\ server = [vector_store |-> TRUE, rag_chain |-> FALSE]
    /\ openai_api_key = "None"
    /\ chat_service = FALSE
    /\ llm = FALSE
    /\ store = <<>>
    /\ chat_history = <<>>
    /\ owners = <<>>
    /\ req = [r \in Requests |-> IdleRequest]
    /\ running = 0
    /\ model = "None"
    /\ calls = <<>>
    /\ db = EmptyDb
    /\ vsinit = NotInitializing
    /\ settings = DefaultSettings
    /\ disk = {}
    /\ boot = Booted
    /\ wait = NotWaiting
    /\ conf = NoSettings
    /\ fs = NoFiles
    /\ openai = NoOpenAI
    /\ backend = NoBackend
    /\ \E use_openai, use_ollama, use_huggingface \in FlagValues, key \in {"None", "", "sk"},
          file_openai, file_ollama, file_huggingface \in DotenvFlagValues,
          file_key \in {"None", "sk"}, ollama, transformers \in BOOLEAN :
          llm_init = [NoLlmInit EXCEPT !.pc = "import",
                         !.environ = [USE_OPENAI |-> use_openai, OPENAI_API_KEY |-> key,
                                      USE_OLLAMA |-> use_ollama,
                                      USE_HUGGINGFACE |-> use_huggingface],
                         !.dotenv = [USE_OPENAI |-> file_openai, OPENAI_API_KEY |-> file_key,
                                     USE_OLLAMA |-> file_ollama,
                                     USE_HUGGINGFACE |-> file_huggingface],
                         !.ollama_installed = ollama, !.transformers_installed = transformers]

SpecInitLlm == InitInitLlm /\ [][import_korean_llm \/ load_dotenv \/ InitLlm]_vars

---------------------------------------------------------------------------
(* service/openai_service.py: OpenAIService.chat.  A temperature is held in
   tenths, 7 for 0.7. *)

default_max_tokens == 500

default_temperature == 7

Given(value) == [given |-> TRUE, value |-> value]

\* x or default, for an optional number: None and 0 are both false
Or(x, default) == IF x.given /\ x.value # 0 THEN x ELSE Given(default)

\* if text: for an Optional[str]
Truthy(text) == text \notin {"None", ""}

\* chat, lines 69-99: the messages of a call without conversation_history
Messages_(system_prompt, context) ==
    (IF Truthy(system_prompt) THEN <<[role |-> "system", content |-> system_prompt]>>
     ELSE IF Truthy(context) THEN <<[role |-> "system", content |-> "Answer based on the context."]>>
     ELSE <<>>)
    \o <<[role |-> "user", content |-> IF Truthy(context) THEN "context and question" ELSE "question"]>>

MaxTokenInputs == {None, Given(0), Given(1), Given(500), Given(1000)}

TemperatureInputs == {None, Given(0), Given(7), Given(10)}

OnlyOpenAI ==
    UNCHANGED <<app, server, openai_api_key, chat_service, llm, store, chat_history, owners,
                req, running, model, calls, db, vsinit, settings, disk, boot, wait, conf, fs,
                llm_init,
                backend>>

\* OpenAIService.chat: the request is built and sent; the API answers or raises
OpenAIChat ==
    /\ app = "openai_service"
    /\ openai.pc = "called"
    /\ \E outcome \in {"returned", "raised"} :
          openai' = [openai EXCEPT
                        !.pc = outcome,
                        !.messages = Messages_(openai.system_prompt, openai.context),
                        !.sent_max_tokens = Or(openai.max_tokens, default_max_tokens),
                        !.sent_temperature = Or(openai.temperature, default_temperature),
                        !.raised = IF outcome = "raised" THEN "Exception" ELSE "none"]
    /\ OnlyOpenAI

InitOpenAI ==
    /\ app = "openai_service"
    /\ server = [vector_store |-> FALSE, rag_chain |-> FALSE]
    /\ openai_api_key = "sk"
    /\ chat_service = FALSE
    /\ llm = FALSE
    /\ store = <<>>
    /\ chat_history = <<>>
    /\ owners = <<>>
    /\ req = [r \in Requests |-> IdleRequest]
    /\ running = 0
    /\ model = "None"
    /\ calls = <<>>
    /\ db = EmptyDb
    /\ vsinit = NotInitializing
    /\ settings = DefaultSettings
    /\ disk = {}
    /\ boot = Booted
    /\ wait = NotWaiting
    /\ conf = NoSettings
    /\ fs = NoFiles
    /\ llm_init = NoLlmInit
    /\ backend = NoBackend
    /\ \E max_tokens \in MaxTokenInputs, temperature \in TemperatureInputs,
          context \in {"None", "", "ctx"}, system_prompt \in {"None", "", "sys"} :
          openai = [NoOpenAI EXCEPT !.pc = "called", !.max_tokens = max_tokens,
                                    !.temperature = temperature, !.context = context,
                                    !.system_prompt = system_prompt]

SpecOpenAI == InitOpenAI /\ [][OpenAIChat]_vars

---------------------------------------------------------------------------
(* backend/main.py: the globals vector_store and chain, initialize_vector_store,
   startup_event and POST /chat.  Each handler runs without suspending. *)

InitialDocuments == 3

\* the calls of initialize_vector_store that can raise, in the order the function
\* makes them; any of them may raise in one call of the function.  The COUNT
\* query is CountOutcomes.
FailAt == {"wait_for_postgres", "OpenAIEmbeddings", "PGVector", "engine.connect",
           "add_documents", "ChatOpenAI", "ConversationBufferMemory", "from_llm"}

\* The COUNT query of lines 109-115 returns the number of rows or raises
CountOutcomes == {"counted", "raised"}

\* lines 108-119: count = result.scalar() or 0, and 0 when the query raised
count_value(rows, outcome) == IF outcome = "raised" THEN 0 ELSE rows

\* initialize_vector_store when the calls in raising raise as they are reached
\* and the COUNT query ends as query says: the globals and the collection it
\* leaves, and what it raised.  The first three calls end the function.  Lines
\* 104-143 are one try: an exception of create_engine, engine.connect or
\* add_documents is printed and dropped, and the function goes on to line 146.
\* The initial documents are added when the connection was made, count is 0
\* (whatever the collection holds) and add_documents does not raise.  The calls
\* after the try raise out of the function, with vector_store already assigned.
initialize_vector_store(b, raising, query) ==
    IF b.vector_store THEN [b |-> b, raised |-> "none"]
    ELSE IF "wait_for_postgres" \in raising THEN [b |-> b, raised |-> "wait_for_postgres"]
    ELSE IF b.OPENAI_API_KEY \in {"None", ""} THEN [b |-> b, raised |-> "ValueError"]
    ELSE IF "OpenAIEmbeddings" \in raising THEN [b |-> b, raised |-> "OpenAIEmbeddings"]
    ELSE IF "PGVector" \in raising THEN [b |-> b, raised |-> "PGVector"]
    ELSE LET added == /\ "engine.connect" \notin raising
                      /\ count_value(b.rows, query) = 0
                      /\ "add_documents" \notin raising
             stored == [b EXCEPT !.vector_store = TRUE,
                                 !.rows = IF added THEN b.rows + InitialDocuments ELSE b.rows]
         IN  IF "ChatOpenAI" \in raising THEN [b |-> stored, raised |-> "ChatOpenAI"]
             ELSE IF "ConversationBufferMemory" \in raising
             THEN [b |-> stored, raised |-> "ConversationBufferMemory"]
             ELSE IF "from_llm" \in raising THEN [b |-> stored, raised |-> "from_llm"]
             ELSE [b |-> [stored EXCEPT !.chain = TRUE], raised |-> "none"]

OnlyBackend ==
    UNCHANGED <<app, server, openai_api_key, chat_service, llm, store, chat_history, owners,
                req, running, model, calls, db, vsinit, settings, disk, boot, wait, conf, fs,
                llm_init, openai>>

\* startup_event: initialize_vector_store, its exception printed and dropped
startup_event ==
    /\ app = "backend"
    /\ ~backend.started
    /\ \E raising \in SUBSET FailAt, query \in CountOutcomes :
          backend' = [initialize_vector_store(backend, raising, query).b EXCEPT !.started = TRUE]
    /\ OnlyBackend

\* POST /chat: 503 when the initialization raises, else chain.invoke, whose
\* exception (AttributeError on a chain that is None included) becomes a 500
backend_chat ==
    /\ app = "backend"
    /\ backend.started
    /\ backend.chats < MaxChats
    /\ \E raising \in SUBSET FailAt, query \in CountOutcomes, invoke \in {"answer", "raises"},
          conversation_id \in {"None", "", "c1"} :
          LET init == IF backend.chain THEN [b |-> backend, raised |-> "none"]
                      ELSE initialize_vector_store(backend, raising, query)
              b == [init.b EXCEPT !.chats = @ + 1, !.conversation_id = "None"]
          IN  backend' =
                 IF init.raised # "none"
                 THEN [b EXCEPT !.status = 503, !.detail = init.raised, !.invoked = "none"]
                 ELSE IF ~b.chain
                 THEN [b EXCEPT !.status = 500, !.detail = "AttributeError",
                                !.invoked = "None"]
                 ELSE IF invoke = "raises"
                 THEN [b EXCEPT !.status = 500, !.detail = "Exception", !.invoked = "chain"]
                 ELSE [b EXCEPT !.status = 200, !.detail = "none", !.invoked = "chain",
                                !.conversation_id =
                                    IF conversation_id \in {"None", ""} THEN "default"
                                    ELSE conversation_id]
    /\ OnlyBackend

InitBackend ==
    /\ app = "backend"
    /\ server = [vector_store |-> FALSE, rag_chain |-> FALSE]
    /\ openai_api_key = "sk"
    /\ chat_service = FALSE
    /\ llm = FALSE
    /\ store = <<>>
    /\ chat_history = <<>>
    /\ owners = <<>>
    /\ req = [r \in Requests |-> IdleRequest]
    /\ running = 0
    /\ model = "None"
    /\ calls = <<>>
    /\ db = EmptyDb
    /\ vsinit = NotInitializing
    /\ settings = DefaultSettings
    /\ disk = {}
    /\ boot = Booted
    /\ wait = NotWaiting
    /\ conf = NoSettings
    /\ fs = NoFiles
    /\ llm_init = NoLlmInit
    /\ openai = NoOpenAI
    /\ \E key \in {"None", "", "sk"}, rows \in {0, 1} :
          backend = [NoBackend EXCEPT !.OPENAI_API_KEY = key, !.rows = rows]

SpecBackend == InitBackend /\ [][startup_event \/ backend_chat]_vars

---------------------------------------------------------------------------
(* Claims *)

RetrievalsWithin(r, lo, hi) ==
    \A i \in DOMAIN req[r].retrievals : req[r].retrievals[i] \in lo..hi

Rejected(r) == req[r].pc = "done" /\ req[r].status = 422 /\ req[r].retrievals = <<>>

\* C1: a /search request with k outside 1..20 and a /rag/query request with k
\* outside 1..10 is answered 422 without any retrieval call, and no retrieval
\* call made for a request carries a k outside the bound of its endpoint.
C1_OutOfBoundKRejected ==
    \A r \in Requests :
        /\ req[r].kind = "search" =>
              /\ RetrievalsWithin(r, 1, 20)
              /\ (req[r].pc = "done" /\ req[r].k \notin 1..20) => Rejected(r)
        /\ req[r].kind = "rag" =>
              /\ RetrievalsWithin(r, 1, 10)
              /\ (req[r].pc = "done" /\ req[r].k \notin 1..10) => Rejected(r)

\* The request ended without a retrieval: refused by the validation, or failed
\* in a dependency of the route, which runs before the validation
RejectedOrFailedBefore(r) ==
    /\ req[r].retrievals = <<>>
    /\ req[r].pc = "done" =>
          \/ req[r].status = 422
          \/ req[r].status = 500 /\ req[r].raised = "depends"

\* C1, as the code has it: no retrieval call is made for a request whose k is
\* outside the bound of its endpoint (1..20 for /search, 1..10 for /rag/query),
\* and the request is answered 422, unless a dependency of the route raised
\* first, which is answered 500
C1_OutOfBoundKNeverRetrieved ==
    \A r \in Requests :
        /\ req[r].kind = "search" =>
              /\ RetrievalsWithin(r, 1, 20)
              /\ req[r].k \notin 1..20 => RejectedOrFailedBefore(r)
        /\ req[r].kind = "rag" =>
              /\ RetrievalsWithin(r, 1, 10)
              /\ req[r].k \notin 1..10 => RejectedOrFailedBefore(r)

C1_Witness ==
    \E r1, r2 \in Requests :
        /\ req[r1].kind = "search" /\ req[r1].k = 21 /\ req[r1].status = 422
        /\ req[r2].kind = "rag" /\ req[r2].k = 11 /\ req[r2].status = 422

\* The first retrieval of a /rag/query request returned no documents
RetrievedNothing(r) ==
    /\ req[r].kind = "rag"
    /\ Len(req[r].retrievals) >= 1
    /\ ~(req[r].raised = "retrieval" /\ Len(req[r].retrievals) = 1)
    /\ req[r].source_docs = <<>>

GeneratorAvailable == chat_service \/ llm \/ openai_api_key \notin {"None", ""}

\* The prompt the generator gets for question q when the context is empty
EmptyContextPrompt(q) ==
    IF chat_service
    THEN <<"### user:\n", "Answer the question from this context:\n\ncontext:\n",
           "\n\nquestion: ", q, "\n\nanswer:", "\n", "### assistant:\n">>
    ELSE <<"\nAnswer the question from this context:\n\ncontext: [",
           "]\n\nquestion: ", q, "\n\nanswer:\n">>

\* C3 as stated: when retrieval returns no documents and nothing raises, the
\* handler answers 200 with an empty sources list after exactly one generation
\* call whose prompt holds an empty context block.
C3_EmptyRetrievalAlwaysGenerates ==
    \A r \in Requests :
        (RetrievedNothing(r) /\ req[r].pc = "done" /\ req[r].raised = "none") =>
            /\ req[r].status = 200
            /\ req[r].documents = <<>>
            /\ Len(req[r].prompts) = 1
            /\ req[r].prompts[1] = EmptyContextPrompt(req[r].question)

\* C3 as amended: when retrieval returns no documents the handler does not fail
\* for that reason: the context is empty, and when nothing raises it answers 200
\* with an empty sources list, after exactly one generation call with the
\* fixed-template prompt when a generator is available (a ChatService, an
\* injected LLM or an OpenAI key) and with the retrieval-only text and no
\* generation call when none is.
C3_EmptyRetrievalStillAnswers ==
    \A r \in Requests :
        RetrievedNothing(r) =>
            /\ req[r].context_docs = <<>>
            /\ req[r].status \in {0, 200, 500}
            /\ req[r].status = 500 =>
                  req[r].raised \in {"retrieval", "tokenizer", "generation", "create_rag_chain"}
            /\ (req[r].pc = "done" /\ req[r].raised = "none") =>
                  /\ req[r].status = 200
                  /\ req[r].documents = <<>>
                  /\ req[r].count = 0
                  /\ IF GeneratorAvailable
                     THEN /\ Len(req[r].prompts) = 1
                          /\ req[r].prompts[1] = EmptyContextPrompt(req[r].question)
                          /\ req[r].answer \in RawOutputs \cup {Strip(out) : out \in RawOutputs}
                     ELSE /\ req[r].prompts = <<>>
                          /\ req[r].answer = <<"Retrieved documents:\n",
                                "\n\nDummy answer for '", req[r].question,
                                "'; set an OpenAI API key.">>

C3_Witness ==
    \E r1, r2 \in Requests :
        /\ RetrievedNothing(r1) /\ req[r1].status = 200 /\ Len(req[r1].prompts) = 1
        /\ RetrievedNothing(r2) /\ req[r2].status = 200 /\ r2 # r1

\* C7: a successful /search on a store of n documents lists min(k, n) distinct
\* stored documents, each with its distance to the query, in non-decreasing
\* order of distance, no unlisted document being nearer than a listed one, and
\* count is the number of documents listed.
C7_SearchReturnsNearestFirst ==
    \A r \in Requests :
        (req[r].kind = "search" /\ req[r].status = 200) =>
            LET ds == req[r].documents
                dist(j) == Distance(openai_api_key, req[r].question, store[j])
            IN  /\ Len(ds) = IF req[r].k < Len(store) THEN req[r].k ELSE Len(store)
                /\ req[r].count = Len(ds)
                /\ \A i \in 1..(Len(ds) - 1) : ds[i].score <= ds[i + 1].score
                /\ \A i, j \in DOMAIN ds : i # j => ds[i].content # ds[j].content
                /\ \A i \in DOMAIN ds : \E j \in DOMAIN store :
                        /\ store[j].page_content = ds[i].content
                        /\ store[j].metadata = ds[i].metadata
                        /\ dist(j) = ds[i].score
                /\ \A j \in DOMAIN store :
                        (\A i \in DOMAIN ds : ds[i].content # store[j].page_content)
                            => \A i \in DOMAIN ds : ds[i].score <= dist(j)

C7_Witness ==
    \E r1, r2 \in Requests :
        /\ req[r1].kind = "search" /\ req[r1].status = 200 /\ req[r1].k = 1
        /\ Len(store) = 2 /\ req[r1].count = 1
        /\ req[r1].documents[1].content # store[1].page_content
        /\ req[r2].kind = "search" /\ req[r2].status = 200 /\ req[r2].k = 11
        /\ req[r2].count = 2
        /\ req[r2].documents[1].score < req[r2].documents[2].score

\* The transcript rendered for request r holds a message another request appended
CrossTalk(r) == \E i \in DOMAIN req[r].seen : req[r].seen[i] # r

\* Two /rag/query requests are in flight on the ChatService path: r1 is inside
\* its handler while r2 has arrived and waits for the event loop
InFlightTogether(r1, r2) ==
    /\ r1 # r2
    /\ chat_service
    /\ req[r1].kind = "rag" /\ req[r1].pc \in {"clear", "chat_begin", "render", "generate"}
    /\ req[r2].kind = "rag" /\ req[r2].pc = "retrieve"

\* Request r has just completed one of its operations on the shared history
\* and has more of them to run
HistoryStep(r) == Clear(r) \/ ChatBegin(r) \/ Render(r)

\* C10 as stated, for the requests the event loop serves: the operations of
\* two concurrent /rag/query requests on chat_history interleave: when one
\* request has completed a reset, an append or a rendering and another one is
\* waiting for the event loop, the event loop can run the other one before
\* the first goes on, which is how a transcript comes to hold a message of
\* the other request.
C10_ConcurrentRequestsInterleave ==
    [][\A r1, r2 \in Requests :
          (HistoryStep(r1) /\ InFlightTogether(r1, r2)') => (ENABLED Schedule(r2))']_vars

\* C10 as amended: the history is one sequence shared by all requests, but
\* rag_query never gives up the event loop, so the appends and resets of two
\* requests do not interleave: every transcript holds only messages of the
\* request it was rendered for, and the history never mixes two requests.
C10_NoCrossTalk ==
    /\ \A r \in Requests : ~CrossTalk(r)
    /\ \A i, j \in DOMAIN owners : owners[i] = owners[j]
    /\ \A r \in Requests :
          req[r].pc \in {"render", "generate"} => owners = <<r>>

C10_Witness ==
    \E r1, r2 \in Requests :
        /\ InFlightTogether(r1, r2)
        /\ req[r1].pc = "generate"
        /\ req[r1].seen = <<r1>>
        /\ chat_history # <<>>

\* C2 (as stated): in api_server, /retrieve and /rag validate k before they
\* retrieve, so that a request with k = 0 or a negative k never reaches
\* vector_store.similarity_search.  QueryRequest declares k: int = 3 without a
\* bound, and neither handler checks k.
C2_ServerKValidatedBeforeRetrieval ==
    \A r \in Requests :
        (req[r].kind \in {"retrieve", "server_rag"} /\ req[r].k < SearchKMin)
            => req[r].retrievals = <<>>

IngestedOk(r) ==
    /\ req[r].kind \in {"add_document", "add_documents"}
    /\ req[r].pc = "done" /\ req[r].status = 200

\* The rows an ingestion request asks to store
Asked(r) ==
    IF req[r].kind = "add_document" THEN <<SingleDoc(req[r].docs_in[1])>>
    ELSE [i \in DOMAIN req[r].docs_in |->
            [page_content |-> req[r].docs_in[i].content,
             metadata |-> IF "metadata" \in req[r].docs_in[i].keys
                          THEN req[r].docs_in[i].metadata ELSE <<>>]]

\* C6: an acknowledged ingestion of m documents (one for /documents) leaves the
\* collection with exactly m more rows, those asked for, and the batch
\* acknowledgment counts m; the same batch ingested a second time adds m rows again.
C6_IngestAddsExactlyM ==
    /\ \A r \in Requests : IngestedOk(r) =>
          LET m == Len(req[r].docs_in)
          IN  /\ req[r].after = req[r].before + m
              /\ req[r].after <= Len(store)
              /\ SubSeq(store, req[r].before + 1, req[r].after) = Asked(r)
              /\ req[r].kind = "add_documents" =>
                    /\ req[r].count = m
                    /\ req[r].answer = <<ToString(m), " documents added successfully">>
    /\ \A r1, r2 \in Requests :
          (r1 < r2 /\ IngestedOk(r1) /\ IngestedOk(r2) /\ req[r1].docs_in = req[r2].docs_in
              /\ req[r1].kind = req[r2].kind)
            => /\ req[r2].before >= req[r1].after \/ req[r1].before >= req[r2].after
               /\ Len(store) >= req[r1].before + 2 * Len(req[r1].docs_in)
                    \/ Len(store) >= req[r2].before + 2 * Len(req[r1].docs_in)

\* C6 witness: the same one-document batch, without metadata in the second
\* case, was ingested twice and the collection holds both copies.
C6_Witness ==
    \E r1, r2 \in Requests :
        /\ r1 < r2 /\ IngestedOk(r1) /\ IngestedOk(r2)
        /\ req[r1].kind = "add_documents" /\ req[r2].kind = "add_documents"
        /\ req[r1].docs_in = req[r2].docs_in /\ Len(req[r1].docs_in) = 1
        /\ "metadata" \notin req[r1].docs_in[1].keys
        /\ Len(store) = 2 /\ store[1] = store[2]

\* The fixed text each handler puts before the exception's message
DetailPrefix(kind) ==
    IF kind = "search" THEN <<"search error: ">>
    ELSE IF kind = "rag" THEN <<"RAG query error: ">>
    ELSE <<>>

\* The retrieval calls a handler makes when nothing fails
RetrievalCalls(r) ==
    IF req[r].kind \in {"search", "retrieve"} THEN {<<req[r].k>>}
    ELSE IF req[r].kind = "server_rag" THEN {<<req[r].k>>, <<req[r].k, ServerChainK>>}
    ELSE {<<req[r].k>>, <<req[r].k, ChainK>>}

\* C9: on /search, /rag/query, /retrieve and /rag, an exception raised by a
\* retrieval or a generation call, by the tokenizer call that prepares the
\* generation, or by the construction of the generating chain, ends the request with status 500 and a detail made of the handler's
\* prefix and the exception's message; the failing call was the last one and
\* was made once, and the response has no documents, no count and no answer.
C9_ExceptionsBecome500 ==
    \A r \in Requests :
        req[r].raised \in {"retrieval", "tokenizer", "generation", "create_rag_chain"} =>
            /\ req[r].kind \in {"search", "rag", "retrieve", "server_rag"}
            /\ req[r].pc = "done"
            /\ req[r].status = 500
            /\ \E e \in Errors \cup {LimitError} : req[r].detail = DetailPrefix(req[r].kind) \o e
            /\ req[r].detail = LimitError => (app = "api_server" /\ req[r].k < 0)
            /\ req[r].retrievals \in RetrievalCalls(r)
            /\ req[r].raised = "create_rag_chain" => req[r].retrievals = <<req[r].k>>
            /\ req[r].raised \in {"retrieval", "tokenizer", "create_rag_chain"} =>
                  req[r].prompts = <<>>
            /\ req[r].raised = "generation" => Len(req[r].prompts) = 1
            /\ Len(req[r].prompts) <= 1
            /\ req[r].documents = <<>> /\ req[r].count = 0 /\ req[r].answer = <<>>

\* C9 witness: one request failed in a retrieval call and another one in the
\* generation call, after both of its retrievals had returned.
C9_Witness ==
    \E r1, r2 \in Requests :
        /\ req[r1].raised = "retrieval" /\ req[r1].status = 500
        /\ req[r2].raised = "generation" /\ req[r2].status = 500
        /\ Len(req[r2].retrievals) = 2 /\ Len(req[r2].prompts) = 1

\* The transcript of a history that holds one user turn only
OnlyTurn(user_message) == <<"### user:\n">> \o user_message \o <<"\n", "### assistant:\n">>

\* The call starts from an empty history: it is the first call on the object,
\* it resets the history, or it follows clear_history() with no chat in between
StartsEmpty(i) ==
    \/ calls[i].reset_history
    \/ \A j \in 1..(i - 1) : calls[j].op = "load_model"
    \/ \E j \in 1..(i - 1) : /\ calls[j].op = "clear_history"
                            /\ \A n \in (j + 1)..(i - 1) : calls[n].op = "load_model"

Rendered(i) == calls[i].op = "chat" /\ calls[i].raised # "load_model"

\* C4: when chat(m1) has returned reply a1 on an empty history and the next
\* chat call chat(m2) does not reset, the transcript rendered for that call is
\* the user turn m1, the assistant turn a1, the user turn m2 and the cue for the
\* reply, in that order; a chat call that follows clear_history() renders its
\* own user turn only.
C4_TranscriptHasTurnsInOrder ==
    /\ \A i, j \in 1..Len(calls) :
          (/\ i < j /\ Rendered(i) /\ Rendered(j)
           /\ calls[i].raised = "none" /\ StartsEmpty(i) /\ ~calls[j].reset_history
           /\ \A n \in (i + 1)..(j - 1) : calls[n].op = "load_model")
          => calls[j].prompt =
                <<"### user:\n">> \o calls[i].user_message \o <<"\n">>
                \o <<"### assistant:\n">> \o calls[i].reply \o <<"\n">>
                \o <<"### user:\n">> \o calls[j].user_message \o <<"\n">>
                \o <<"### assistant:\n">>
    /\ \A i \in 1..Len(calls) :
          (Rendered(i) /\ StartsEmpty(i)) => calls[i].prompt = OnlyTurn(calls[i].user_message)

\* C4 witness: chat("hi") and chat("there") without reset, then clear_history()
\* and another chat call, all returned.
C4_Witness ==
    /\ Len(calls) = 4
    /\ calls[1].op = "chat" /\ calls[1].user_message = <<"hi">> /\ calls[1].raised = "none"
    /\ ~calls[1].reset_history
    /\ calls[2].op = "chat" /\ calls[2].user_message = <<"there">> /\ calls[2].raised = "none"
    /\ ~calls[2].reset_history
    /\ calls[3].op = "clear_history"
    /\ calls[4].op = "chat" /\ calls[4].raised = "none" /\ ~calls[4].reset_history
    /\ Len(chat_history) = 2

\* C5: when the probe search of initialize_vectorstore has failed with the
\* dimension error and initialization has returned, the collection record the
\* probe ran against and every row it held are gone, and the collection exists
\* again under a new record and holds only rows of the process's
\* dimensionality, the samples, while rows of other collections stay.
C5_MismatchRecoveryDropsAndRecreates ==
    (vsinit.probe = "dimensions" /\ vsinit.pc = "done") =>
        /\ \E i \in DOMAIN vsinit.old_rows : vsinit.old_rows[i].dim # EmbeddingDim
        /\ RowsOf(db, vsinit.old_uuid) = <<>>
        /\ \A i \in DOMAIN db.rows : \A j \in DOMAIN vsinit.old_rows :
              db.rows[i] # vsinit.old_rows[j]
        /\ \A c \in db.collections : c.uuid # vsinit.old_uuid
        /\ OtherCollection \in db.collections =>
              RowsOf(db, OtherCollection.uuid) = <<OtherRow>>
        /\ HasCollection(db)
        /\ CollectionUuid(db) # vsinit.old_uuid
        /\ Len(RowsOf(db, CollectionUuid(db))) >= SampleCount
        /\ \A i \in DOMAIN db.rows :
              db.rows[i].collection_id = CollectionUuid(db)
                  => /\ db.rows[i].dim = EmbeddingDim
                     /\ \E n \in 1..SampleCount : db.rows[i].content = sample_docs[n]

\* The selected provider lacks what it needs: openai without a key, or a local
\* provider whose model directory is unset or is not on disk
PrerequisitesMissing ==
    LET provider == Lower(settings.llm_provider)
    IN  \/ provider = "openai" /\ Unset(openai_api_key)
        \/ provider = "korean_local"
              /\ (Unset(settings.local_model_dir) \/ ~Exists(settings.local_model_dir))
        \/ provider = "midm"
              /\ ~Exists(IF Unset(settings.local_model_dir) THEN MidmDir
                         ELSE settings.local_model_dir)

\* C8 (as stated): whenever the selected provider's prerequisites are missing,
\* create_llm_from_config returns None instead of raising, and startup completes
\* with app.state.llm = None.  With provider korean_local and a directory that
\* is set but not on disk, create_local_korean_llm raises FileNotFoundError,
\* which lifespan does not catch.
C8_SelectionFailsSoft ==
    (app = "lifespan" /\ boot.pc \in {"ready", "failed"} /\ vsinit.pc = "done"
        /\ boot.error # "Exception" /\ PrerequisitesMissing)
      => boot.pc = "ready" /\ boot.result = "None" /\ boot.error = "none" /\ ~llm

SourcesOf(docs) ==
    [i \in DOMAIN docs |-> DocumentResponse(docs[i].page_content, docs[i].metadata, NoScore)]

\* C11 (as stated): in every answered RAG request for which the generator was
\* called, the documents returned as sources are the documents formatted into
\* the generator's context, the same ones in the same order.  The fallback chain
\* of /rag/query and the chain of api_server's /rag retrieve a second time with
\* their own k, so the context can hold other documents than the sources.
C11_SourcesAreContextDocs ==
    \A r \in Requests :
        (req[r].kind \in {"rag", "server_rag"} /\ req[r].pc = "done" /\ req[r].status = 200
            /\ req[r].prompts # <<>>)
          => req[r].documents = SourcesOf(req[r].context_docs)

\* The step is a chat call that returned
ChatReturned ==
    /\ Len(calls') = Len(calls) + 1
    /\ calls'[Len(calls')].op = "chat"
    /\ calls'[Len(calls')].raised = "none"

\* C12: a chat call that returns leaves the history ending with the user
\* message just sent and then an assistant message whose content is the
\* returned text; the history is two entries longer than before, the earlier
\* entries kept as they were, or exactly two entries long with reset_history;
\* the prompt given to the one generation call is the rendering of the history
\* up to the user message.
C12_ChatAppendsUserThenReply ==
    [][ChatReturned =>
          LET c == calls'[Len(calls')]
              n == Len(chat_history')
              prior == IF c.reset_history THEN <<>> ELSE chat_history
          IN  /\ n = Len(prior) + 2
              /\ SubSeq(chat_history', 1, n - 2) = prior
              /\ chat_history'[n - 1] = [role |-> "user", content |-> c.user_message,
                                         timestamp |-> "None"]
              /\ chat_history'[n] = [role |-> "assistant", content |-> c.reply,
                                     timestamp |-> "None"]
              /\ c.generations = 1
              /\ c.prompt = _format_chat_history(SubSeq(chat_history', 1, n - 1))]_vars

\* C12 witness: a chat call without reset returned on a history that already
\* held a turn, and a later call with reset returned and left two entries.
C12_Witness ==
    \E i, j \in 1..Len(calls) :
        /\ i < j /\ j = Len(calls)
        /\ calls[i].op = "chat" /\ calls[i].raised = "none" /\ ~calls[i].reset_history
        /\ calls[i].prompt # OnlyTurn(calls[i].user_message)
        /\ calls[j].op = "chat" /\ calls[j].raised = "none" /\ calls[j].reset_history
        /\ Len(chat_history) = 2
        /\ chat_history[2].content = calls[j].reply

\* C13: GET /health of app/main.py always answers 200 with status "healthy";
\* it opens one connection, and database is "connected" exactly when that
\* connection opened and "disconnected" when opening it raised, whatever the
\* exception.
C13_HealthNeverFails ==
    \A r \in Requests :
        req[r].kind = "health" =>
            /\ req[r].pc = "done" /\ req[r].status = 200 /\ req[r].raised = "none"
            /\ req[r].health.status = "healthy"
            /\ Len(req[r].connects) = 1
            /\ req[r].health.database = "connected" <=> req[r].connects[1] = "ok"
            /\ req[r].health.database = "disconnected" <=> req[r].connects[1] # "ok"

\* C13 witness: one health request met a database that refused the connection
\* and another one a database that accepted it.
C13_Witness ==
    \E r1, r2 \in Requests :
        /\ req[r1].kind = "health" /\ req[r1].connects = <<"OperationalError">>
        /\ req[r1].health.database = "disconnected" /\ req[r1].status = 200
        /\ req[r2].kind = "health" /\ req[r2].connects = <<"ok">>
        /\ req[r2].health.database = "connected"

WaitOver == wait.pc \in {"returned", "raised"}

\* Every attempt made so far failed with a connectivity error that the loop retries
WaitSafe ==
    /\ wait.attempts <= max_retries(wait.variant)
    /\ wait.retry_count <= max_retries(wait.variant)
    /\ wait.last = "ok" <=> wait.pc = "returned"
    /\ wait.pc \in {"connect", "sleep"} => wait.attempts < max_retries(wait.variant)
                                            \/ (wait.variant = "main" /\ wait.pc = "sleep")
    /\ (wait.pc = "raised" /\ (wait.variant # "main" \/ wait.error = "Exception"))
          => wait.attempts = max_retries(wait.variant) /\ wait.last # "ok"
    /\ (wait.pc = "raised" /\ wait.variant = "main" /\ wait.error # "Exception")
          => wait.error = "ProgrammingError"

\* The loop, called for a request, sleeps before it tries again
RetriesForRequest == wait.caller = "chat" /\ wait.pc = "sleep"

\* C14: wait_for_postgres makes at most max_retries connection attempts, has
\* returned exactly when an attempt succeeded (and then makes no further one),
\* raises only after max_retries failed attempts (in app/main.py also at once
\* on an exception that is not a connectivity error), and always terminates;
\* and no request makes the loop retry.
C14_WaitIsBoundedAndTerminates == []WaitSafe /\ <>WaitOver /\ []~RetriesForRequest

\* C14, as the code has it: every call of wait_for_postgres makes at most
\* max_retries connection attempts, has returned exactly when an attempt
\* succeeded, raises only after max_retries failed attempts (in app/main.py
\* also at once on an exception that is not a connectivity error) and
\* terminates; the callers are the startup and, in backend/main.py only, a
\* /chat request that finds the vector store not initialized.
C14_EveryWaitIsBoundedAndTerminates ==
    /\ []WaitSafe
    /\ <>WaitOver
    /\ ~WaitOver ~> WaitOver
    /\ [](wait.caller = "chat" => wait.variant = "backend" /\ wait.chats >= 1)
    /\ [](wait.caller = "startup" => wait.chats = 0)

\* C14 witness: in backend/main.py the loop run for a /chat request raised
\* after 30 failed attempts.
C14_Witness ==
    /\ wait.variant = "backend" /\ wait.caller = "chat"
    /\ wait.pc = "raised" /\ wait.attempts = BackendMaxRetries
    /\ wait.retry_count = BackendMaxRetries - 1

\* What _sanitize_database_url was given, once it has returned
Sanitized == conf.pc \in {"sanitized", "resanitized"}

OtherFields(url) == SelectSeq(url.query, LAMBDA f : f.name # "channel_binding")

\* C15: _sanitize_database_url removes channel_binding and leaves the scheme,
\* the credentials and host, the path and every other query parameter, name
\* and value, as they were written; sanitizing its result changes nothing
C15_SanitizeRemovesOnlyChannelBinding ==
    /\ Sanitized =>
          /\ conf.sanitized.scheme = conf.database_url_env.scheme
          /\ conf.sanitized.netloc = conf.database_url_env.netloc
          /\ conf.sanitized.path = conf.database_url_env.path
          /\ conf.sanitized.query = OtherFields(conf.database_url_env)
    /\ conf.pc = "resanitized" => conf.resanitized = conf.sanitized

\* C15, the part the code does keep: channel_binding is gone, scheme, netloc
\* and path are untouched, and the function is idempotent
C15_SanitizeIsIdempotent ==
    /\ Sanitized =>
          /\ conf.sanitized.scheme = conf.database_url_env.scheme
          /\ conf.sanitized.netloc = conf.database_url_env.netloc
          /\ conf.sanitized.path = conf.database_url_env.path
          /\ \A i \in 1..Len(conf.sanitized.query) :
                conf.sanitized.query[i].name # "channel_binding"
    /\ conf.pc = "resanitized" => conf.resanitized = conf.sanitized

\* C16: database_url is the sanitized DATABASE_URL when the variable is set,
\* and the URL composed from the POSTGRES_* fields when it is not set
C16_DatabaseUrlFallsBackToPostgresFields ==
    conf.pc \in {"read", "sanitized", "resanitized"} =>
        /\ (conf.DATABASE_URL_set /\ conf.database_url_env # EmptyUrl)
              => conf.database_url = _sanitize_database_url(conf.database_url_env)
        /\ ~conf.DATABASE_URL_set => conf.database_url = ComposedUrl(conf)

\* The request went through the fallback chain with no LLM injected and no
\* OpenAI key, and both of its retrievals returned
Degraded(r) ==
    /\ req[r].kind = "rag"
    /\ req[r].pc \in {"respond", "done"}
    /\ Len(req[r].retrievals) = 2
    /\ req[r].raised # "retrieval"
    /\ ~chat_service /\ ~llm /\ openai_api_key \in {"None", ""}

\* One line "- content" per document, the lines separated by newlines
RECURSIVE Listing(_)
Listing(docs) ==
    IF docs = <<>> THEN <<>>
    ELSE <<"- ">> \o docs[1].page_content
            \o (IF Len(docs) = 1 THEN <<>> ELSE <<"\n">> \o Listing(Tail(docs)))

\* C17: with no LLM injected and no OpenAI key a RAG query does not fail: the
\* chain retrieves, calls no generator, and the answer is a text that lists
\* the retrieved documents
C17_NoLlmDegradesToRetrievalOnly ==
    \A r \in Requests :
        Degraded(r) =>
            /\ req[r].raised = "none"
            /\ req[r].status \in {0, 200}
            /\ req[r].pc = "done" => req[r].status = 200
            /\ req[r].prompts = <<>>
            /\ req[r].retrievals = <<req[r].k, ChainK>>
            /\ req[r].context_docs =
                  similarity_search(store, openai_api_key, req[r].question, ChainK)
            /\ req[r].answer =
                  <<"Retrieved documents:\n">> \o Listing(req[r].context_docs)
                     \o <<"\n\nDummy answer for '", req[r].question,
                          "'; set an OpenAI API key.">>

C17_Witness ==
    \E r \in Requests :
        /\ Degraded(r)
        /\ req[r].pc = "done"
        /\ req[r].status = 200
        /\ Len(req[r].context_docs) = 2
        /\ req[r].prompts = <<>>

\* The context block inside the prompt rag_query built for the ChatService
ContextOf(r) == SubSeq(req[r].rag_prompt, 2, Len(req[r].rag_prompt) - 3)

\* Entries i, i+1, ... of a context block: label, content, and a blank line
\* before the next entry
RECURSIVE LabelledFrom(_, _)
LabelledFrom(i, docs) ==
    IF docs = <<>> THEN <<>>
    ELSE <<"[doc ", ToString(i), "]\n">> \o docs[1].page_content
            \o (IF Len(docs) = 1 THEN <<>> ELSE <<"\n\n">> \o LabelledFrom(i + 1, Tail(docs)))

\* The numbers of the labels of a block, in the order they appear
LabelsOf(block) ==
    LET at == SelectSeq([p \in 1..Len(block) |-> p], LAMBDA p : block[p] = "[doc ")
    IN  [j \in 1..Len(at) |-> block[at[j] + 1]]

\* C18: the context block of the ChatService path is the retrieved documents'
\* contents in retrieval order, the i-th under the label i, entries separated
\* by a blank line: n retrieved documents give the labels 1..n and no other
C18_ContextBlockIsLabelledInOrder ==
    \A r \in Requests :
        req[r].rag_prompt # <<>> =>
            /\ ContextOf(r) = LabelledFrom(1, req[r].source_docs)
            /\ LabelsOf(ContextOf(r)) = [i \in 1..Len(req[r].source_docs) |-> ToString(i)]
            /\ req[r].rag_prompt[1] = "Answer the question from this context:\n\ncontext:\n"
            /\ req[r].context_docs = req[r].source_docs

C18_Witness ==
    \E r \in Requests :
        /\ req[r].rag_prompt # <<>>
        /\ Len(req[r].source_docs) = 2
        /\ LabelsOf(ContextOf(r)) = <<"1", "2">>

\* C19: load_chat_history of a file a save_chat_history call wrote and
\* returned from makes the history, of the saving object or of another one,
\* equal to the history that was saved: as many messages, in the same order,
\* each with the same role, content and timestamp; clear_history leaves the
\* history empty
C19_SaveLoadRoundTrip ==
    [][/\ \A filepath \in Paths :
             /\ (load_chat_history(filepath) /\ Loadable(filepath))
                   => chat_history' = fs.saved[filepath]
             /\ (load_chat_history_other(filepath) /\ Loadable(filepath))
                   => fs'.other = fs.saved[filepath]
       /\ clear_history => chat_history' = <<>>]_vars

\* C19 witness: a history of two different messages was saved, cleared and
\* loaded again from the file
C19_Witness ==
    /\ Len(calls) = 2
    /\ calls[1].op = "chat" /\ calls[1].raised = "none"
    /\ calls[2].op = "clear_history"
    /\ \E filepath \in Paths :
          /\ <<"self", filepath>> \in fs.loads
          /\ Len(fs.saved[filepath]) = 2
          /\ chat_history = fs.saved[filepath]
          /\ chat_history[1].role = "user" /\ chat_history[2].role = "assistant"

\* The embedding rows were deleted and the DELETE of the collection record raised
RecordDeleteFailed ==
    /\ vsinit.probe = "dimensions"
    /\ vsinit.cleanup = "raised"
    /\ vsinit.raised_at = "delete_collection"

\* C20 (as stated): when the deletion of the embedding rows succeeded and the
\* deletion of the collection record failed, the row deletion persists: the
\* store keeps the collection record and none of the rows it held
C20_RowDeletionPersists ==
    RecordDeleteFailed =>
        /\ \E c \in db.collections : c.uuid = vsinit.old_uuid
        /\ \A i \in DOMAIN db.rows : \A j \in DOMAIN vsinit.old_rows :
              db.rows[i] # vsinit.old_rows[j]

\* C20 (amended): both deletions run in one transaction that only line 138
\* commits; when the deletion of the collection record fails after the rows
\* were deleted, nothing was committed: the collection record and every row
\* it held are still there, and the samples added afterwards come after them
C20_FailedCleanupDeletesNothing ==
    /\ vsinit.pc \in {"delete_embeddings", "delete_collection", "commit"} =>
          /\ RowsOf(db, vsinit.old_uuid) = vsinit.old_rows
          /\ \E c \in db.collections : c.uuid = vsinit.old_uuid
    /\ RecordDeleteFailed =>
          /\ \E c \in db.collections : c.uuid = vsinit.old_uuid
          /\ CollectionUuid(db) = vsinit.old_uuid
          /\ Len(RowsOf(db, vsinit.old_uuid)) >= Len(vsinit.old_rows)
          /\ SubSeq(RowsOf(db, vsinit.old_uuid), 1, Len(vsinit.old_rows)) = vsinit.old_rows
          /\ vsinit.pc \in {"done", "failed"} =>
                ~vsinit.connected /\ ~vsinit.deleted_embeddings /\ ~vsinit.deleted_collection

\* C20 witness: initialization returned after the record's DELETE raised, on
\* a collection that held two rows
C20_Witness ==
    /\ RecordDeleteFailed
    /\ vsinit.pc = "done"
    /\ Len(vsinit.old_rows) = 2
    /\ Len(RowsOf(db, vsinit.old_uuid)) > 2

RECURSIVE LoadsUpTo(_)
LoadsUpTo(n) == IF n = 0 THEN 0 ELSE LoadsUpTo(n - 1) + calls[n].loads

\* C21: over any sequence of load_model, chat and train_qlora calls on one
\* ChatService the weights are loaded at most once; a call loads them only
\* when no model is loaded, that is when no earlier call has; a load_model
\* call on a loaded instance loads nothing; and a loaded model stays loaded
C21_WeightsLoadedAtMostOnce ==
    /\ LoadsUpTo(Len(calls)) <= 1
    /\ model # "None" <=> LoadsUpTo(Len(calls)) = 1
    /\ \A i \in 1..Len(calls) :
          /\ calls[i].loads = 1 => LoadsUpTo(i - 1) = 0
          /\ (LoadsUpTo(i - 1) = 1) => calls[i].loads = 0 /\ calls[i].raised # "load_model"
          /\ (LoadsUpTo(i - 1) = 0 /\ calls[i].raised # "load_model") => calls[i].loads = 1

\* C21 witness: chat loaded the model lazily, and load_model, train_qlora and
\* another chat followed on the loaded instance
C21_Witness ==
    /\ Len(calls) = 4
    /\ calls[1].op = "chat" /\ calls[1].loads = 1
    /\ calls[2].op = "load_model" /\ calls[2].raised = "none"
    /\ calls[3].op = "train_qlora" /\ calls[3].raised = "none"
    /\ calls[4].op = "chat" /\ calls[4].raised = "none"

\* The user/assistant pair of an answered request
PairOf(r) ==
    <<[role |-> "user", content |-> req[r].rag_prompt, timestamp |-> "None"],
      [role |-> "assistant", content |-> req[r].answer, timestamp |-> "None"]>>

\* The request was answered through the ChatService
AnsweredByChat(r) ==
    /\ req[r].kind = "rag" /\ req[r].rag_prompt # <<>>
    /\ req[r].raised = "none"
    /\ req[r].pc \in {"respond", "done"}

\* C22: on the ChatService path every /rag/query request is handled without
\* the history of earlier requests: the transcript rendered for it has its own
\* RAG prompt as the only turn, and once it is answered and until the next
\* request starts its chat the shared history is that request's user and
\* assistant messages and nothing else
C22_QueriesIgnoreHistory ==
    \A r \in Requests :
        /\ req[r].transcript # <<>> =>
              req[r].transcript =
                 <<"### user:\n">> \o req[r].rag_prompt \o <<"\n", "### assistant:\n">>
        /\ (AnsweredByChat(r) /\ (req[r].pc = "respond" \/ (owners # <<>> /\ owners[1] = r)))
              => chat_history = PairOf(r) /\ owners = <<r, r>>

\* C22 witness: a second request was answered after a first one had left its
\* pair in the history
C22_Witness ==
    \E r1, r2 \in Requests :
        /\ r1 # r2
        /\ AnsweredByChat(r1) /\ AnsweredByChat(r2)
        /\ req[r1].pc = "done" /\ req[r2].pc = "done"
        /\ req[r1].rag_prompt # req[r2].rag_prompt
        /\ chat_history = PairOf(r2)

\* The flag is set to the word true, in any letter case
SetTrue(value) == value \in {"true", "TRUE"}

\* C23: init_llm selects by the flags alone, as the environment has them when
\* it is called: OpenAI exactly when USE_OPENAI is true and the API key is not
\* empty; otherwise Ollama when USE_OLLAMA is true, also when USE_HUGGINGFACE
\* is; otherwise Hugging Face when USE_HUGGINGFACE is true; otherwise it raises
\* ValueError and selects nothing
C23_InitLlmSelectsByFlags ==
    llm_init.pc = "done" =>
        LET e == llm_init.environ
            wants_openai == SetTrue(e.USE_OPENAI) /\ e.OPENAI_API_KEY \notin {"None", ""}
        IN  /\ llm_init.selected = "openai" <=> wants_openai
            /\ llm_init.selected = "ollama" <=> ~wants_openai /\ SetTrue(e.USE_OLLAMA)
            /\ llm_init.selected = "huggingface" <=>
                  /\ ~wants_openai /\ ~SetTrue(e.USE_OLLAMA)
                  /\ SetTrue(e.USE_HUGGINGFACE)
            /\ llm_init.raised = "ValueError" <=>
                  /\ ~wants_openai /\ ~SetTrue(e.USE_OLLAMA)
                  /\ ~SetTrue(e.USE_HUGGINGFACE)
            /\ llm_init.raised = "ValueError" <=> llm_init.selected = "none"
            /\ llm_init.result = "llm" => llm_init.raised = "none"

\* The probe search returned without error
ProbeOk == vsinit.probe = "ok" /\ vsinit.pc \in {"add100", "add154", "add156", "done", "failed"}

\* C24: when the probe search returns a document without error,
\* initialize_vectorstore adds nothing and returns with the collection as it
\* found it; when the probe returns no document it calls add_sample_documents,
\* and when that call returns the collection holds the five samples; so a
\* restart against a collection that answers the probe leaves it unchanged
C24_InitializedCollectionIsReused ==
    /\ (ProbeOk /\ vsinit.old_rows # <<>>) =>
          /\ vsinit.pc = "done"
          /\ vsinit.adds = 0
          /\ RowsOf(db, vsinit.old_uuid) = vsinit.old_rows
          /\ CollectionUuid(db) = vsinit.old_uuid
    /\ (ProbeOk /\ vsinit.old_rows = <<>> /\ vsinit.pc = "done" /\ vsinit.adds = 1) =>
          /\ Len(RowsOf(db, vsinit.old_uuid)) = 5
          /\ \A i \in 1..5 :
                /\ RowsOf(db, vsinit.old_uuid)[i].content = <<"sample", ToString(i)>>
                /\ RowsOf(db, vsinit.old_uuid)[i].dim = EmbeddingDim
    /\ vsinit.pc = "add100" => vsinit.probe = "ok" /\ RowsOf(db, CollectionUuid(db)) = <<>>

\* C24 witness: a first process filled the empty collection, and a second one
\* found the five samples and returned without adding
C24_Witness ==
    /\ vsinit.restarts = 1
    /\ vsinit.pc = "done" /\ vsinit.probe = "ok"
    /\ vsinit.adds = 0
    /\ Len(vsinit.old_rows) = 5
    /\ RowsOf(db, vsinit.old_uuid) = vsinit.old_rows

\* C26: on every path through initialize_vectorstore add_sample_documents
\* returns at most once, and when initialization has returned on a collection
\* that was empty, missing or re-created, each sample is stored exactly once
C26_SamplesAddedAtMostOnce ==
    /\ vsinit.adds <= 1
    /\ (vsinit.pc = "done" /\ vsinit.adds >= 1
            /\ (vsinit.old_rows = <<>> \/ vsinit.cleanup = "committed")) =>
          \A n \in 1..SampleCount :
              Cardinality({i \in DOMAIN db.rows :
                              /\ db.rows[i].collection_id = CollectionUuid(db)
                              /\ db.rows[i].content = sample_docs[n]}) = 1

\* C25: OpenAIService.chat sends the caller's max_tokens and temperature
\* whenever the caller gives them, the value 0 included, and the defaults 500
\* and 0.7 only when the caller gives none; every request carries a cap
C25_CallerValuesAreSent ==
    openai.pc \in {"returned", "raised"} =>
        /\ openai.sent_max_tokens.given
        /\ openai.sent_temperature.given
        /\ openai.sent_max_tokens.value =
              IF openai.max_tokens.given THEN openai.max_tokens.value ELSE 500
        /\ openai.sent_temperature.value =
              IF openai.temperature.given THEN openai.temperature.value ELSE 7

\* C27: in backend/main.py, after any startup and /chat calls, each of which
\* may fail at any initialization step, a vector store that is set implies a
\* chain that is set, and /chat never invokes a chain that is None: it answers
\* 503 when the initialization fails and otherwise runs an initialized chain
C27_ChainIsSetWithVectorStore ==
    /\ backend.vector_store => backend.chain
    /\ backend.invoked # "None"
    /\ backend.status # 0 => (backend.status = 503 <=> backend.invoked = "none")

\* C28: after any sequence of chat and clear_history calls, chats whose
\* generation raises included, chat_history has even length and alternates
\* user, assistant, starting with user
C28_HistoryAlternates ==
    /\ Len(chat_history) % 2 = 0
    /\ \A i \in 1..Len(chat_history) :
          chat_history[i].role = IF i % 2 = 1 THEN "user" ELSE "assistant"

\* A /documents/batch request with an entry that has no "content" key
Malformed(r) ==
    /\ req[r].pc = "done"
    /\ req[r].kind = "add_documents"
    /\ \E i \in DOMAIN req[r].docs_in : "content" \notin req[r].docs_in[i].keys

\* C29: a /documents/batch request with an entry that lacks "content" is
\* answered 500 and none of its documents is added, the well-formed entries
\* before the malformed one included
C29_MalformedBatchAddsNothing ==
    \A r \in Requests : Malformed(r) =>
        /\ req[r].status = 500
        /\ req[r].after = req[r].before
        /\ req[r].count = IdleRequest.count
        /\ server.vector_store => req[r].raised = "KeyError"

\* C29 witness: on an initialized store, a batch of a well-formed entry
\* followed by one without content was refused with the KeyError's message
C29_Witness ==
    \E r \in Requests :
        /\ Malformed(r) /\ server.vector_store
        /\ Len(req[r].docs_in) = 2
        /\ "content" \in req[r].docs_in[1].keys
        /\ "content" \notin req[r].docs_in[2].keys
        /\ req[r].status = 500 /\ req[r].raised = "KeyError"
        /\ req[r].detail = <<"'content'">>
        /\ req[r].after = req[r].before

\* C30: for every value of the API key (unset, empty, non-empty) the
\* openai_configured field of /health is true exactly when get_embeddings
\* selects the OpenAI embeddings and the LLM factory and create_rag_chain
\* treat the key as present
C30_HealthAgreesWithProviderSelection ==
    \A r \in Requests : (req[r].kind = "health" /\ req[r].pc = "done") =>
        /\ req[r].health.openai_configured <=> EmbeddingDim = OpenAIDim
        /\ req[r].health.openai_configured <=> ~Unset(openai_api_key)

====
